---- MODULE Spec2Model ----
(***************************************************************************)
(* Model of the rir analysis framework: the abstract state (State.h), the  *)
(* dispatcher (framework.h) and the forward and backward fixpoint drivers  *)
(* with their per-instruction retrieval caches (analysis.h).               *)
(*                                                                         *)
(* Locations are positions 1..Len(code) of the instruction sequence; the   *)
(* forward end() is Len(code)+1 and the reverse end rend() is 0.           *)
(* A pointer is Null (<<>>) or New(s) (<<s>>), the owned object s.         *)
(***************************************************************************)
EXTENDS Integers, Sequences, FiniteSets, TLC

\* Largest height of the value domain the analyses are run over.
MaxTop == 2

\* Saturation point of the ghost counters (arrivals, enqueues).
CountCap == 8

Null == <<>>
New(s) == <<s>>
Deref(p) == p[1]

Max(a, b) == IF a >= b THEN a ELSE b
Min(a, b) == IF a <= b THEN a ELSE b

(***************************************************************************)
(* The abstract value domain (supplied by the analysis).  A domain D is a  *)
(* chain 0..D.top with merge = maximum; D.absent is the value a binding    *)
(* missing on one path is merged with.                                     *)
(***************************************************************************)
Domains == { [top |-> t, absent |-> t] : t \in 1..MaxTop }

\* AVALUE::mergeWith: self becomes the join, the result tells if it changed.
ValueMergeWith(self, other) ==
    [value |-> Max(self, other), result |-> other > self]

(***************************************************************************)
(* AbstractStack: a sequence of values, index 1 is the top of the stack.   *)
(***************************************************************************)
StackPush(stack, v) == <<v>> \o stack
StackPop(stack) == Tail(stack)

\* A merge that stops merging slots once one has changed.
StackMergeWithShort(self, other) ==
    IF Len(self) # Len(other)
    THEN [stack |-> self, result |-> FALSE, ok |-> FALSE]
    ELSE [stack  |-> [i \in 1..Len(self) |->
                        IF \E j \in 1..(i - 1) :
                              ValueMergeWith(self[j], other[j]).result
                        THEN self[i]
                        ELSE ValueMergeWith(self[i], other[i]).value],
          result |-> \E i \in 1..Len(self) :
                        ValueMergeWith(self[i], other[i]).result,
          ok     |-> TRUE]

\* A merge without the depth assertion: the slots both stacks have are merged.
StackMergeWithUnchecked(self, other) ==
    [stack  |-> [i \in 1..Len(self) |->
                    IF i <= Len(other)
                    THEN ValueMergeWith(self[i], other[i]).value
                    ELSE self[i]],
     result |-> \E i \in 1..Min(Len(self), Len(other)) :
                    ValueMergeWith(self[i], other[i]).result,
     ok     |-> TRUE]

\* AbstractStack::mergeWith; ok is FALSE when the depth assertion fails.
StackMergeWith(self, other) ==
    IF Len(self) # Len(other)
    THEN [stack |-> self, result |-> FALSE, ok |-> FALSE]
    ELSE [stack  |-> [i \in 1..Len(self) |->
                        ValueMergeWith(self[i], other[i]).value],
          result |-> \E i \in 1..Len(self) :
                        ValueMergeWith(self[i], other[i]).result,
          ok     |-> TRUE]

(***************************************************************************)
(* AbstractEnvironment: a scope chain, a non-empty sequence of maps; the   *)
(* first map holds the local bindings, the rest is the parent chain.       *)
(***************************************************************************)
EmptyEnv == << <<>> >>

EnvHas(env, k) == k \in DOMAIN env[1]
EnvHasParent(env) == Len(env) > 1

\* The number of times AbstractEnvironment::mergeWith merges Absent() into
\* the value of key k: once in its first loop (over the bindings of other)
\* if self does not bind k, once in its second loop (over the bindings self
\* has after the first loop) if other does not bind k.
LocalAbsentMerges(self, other, k) ==
    LET first  == IF k \in DOMAIN other /\ k \notin DOMAIN self THEN 1 ELSE 0
        after  == DOMAIN self \cup DOMAIN other
        second == IF k \in after /\ k \notin DOMAIN other THEN 1 ELSE 0
    IN  first + second

\* A merge of maps that leaves the keys only self binds as they are.
LocalMergeWithOwnKept(self, other, D) ==
    [k \in DOMAIN self \cup DOMAIN other |->
        IF k \notin DOMAIN self
        THEN ValueMergeWith(other[k], D.absent).value
        ELSE IF k \in DOMAIN other
        THEN ValueMergeWith(self[k], other[k]).value
        ELSE self[k]]

\* The bindings of one map after merging the map other into the map self.
LocalMergeWith(self, other, D) ==
    [k \in DOMAIN self \cup DOMAIN other |->
        IF k \notin DOMAIN self
        THEN ValueMergeWith(other[k], D.absent).value
        ELSE IF k \in DOMAIN other
        THEN ValueMergeWith(self[k], other[k]).value
        ELSE ValueMergeWith(self[k], D.absent).value]

LocalMergeResult(self, other, D) ==
    \/ \E k \in DOMAIN other : k \notin DOMAIN self
    \/ \E k \in DOMAIN self \cap DOMAIN other :
          ValueMergeWith(self[k], other[k]).result
    \/ \E k \in DOMAIN self \ DOMAIN other :
          ValueMergeWith(self[k], D.absent).result

RECURSIVE EnvMergeWith(_, _, _)
\* AbstractEnvironment::mergeWith.
EnvMergeWith(self, other, D) ==
    LET local  == LocalMergeWith(self[1], other[1], D)
        lres   == LocalMergeResult(self[1], other[1], D)
    IN  IF ~EnvHasParent(self)
        THEN IF EnvHasParent(other)
             THEN [env |-> <<local>> \o Tail(other), result |-> TRUE]
             ELSE [env |-> <<local>>, result |-> lres]
        ELSE IF EnvHasParent(other)
             THEN LET p == EnvMergeWith(Tail(self), Tail(other), D)
                  IN  [env |-> <<local>> \o p.env, result |-> p.result \/ lres]
             ELSE [env |-> <<local>> \o Tail(self), result |-> lres]

RECURSIVE EnvFind(_, _, _)
\* AbstractEnvironment::find.
EnvFind(env, k, D) ==
    IF k \in DOMAIN env[1] THEN env[1][k]
    ELSE IF EnvHasParent(env) THEN EnvFind(Tail(env), k, D)
    ELSE D.top

\* The non-const operator[]: a missing key is first bound locally to top().
EnvRef(env, k, D) ==
    IF k \in DOMAIN env[1] THEN env
    ELSE [env EXCEPT ![1] = (k :> D.top) @@ env[1]]

\* Assignment through the non-const operator[]: env[k] = v.
EnvAssign(env, k, v, D) ==
    LET e == EnvRef(env, k, D) IN [e EXCEPT ![1] = [e[1] EXCEPT ![k] = v]]

(***************************************************************************)
(* AbstractState: stack + environment (the global component is the         *)
(* DummyState, whose merge never reports a change).                        *)
(***************************************************************************)
EmptyState == [stack |-> <<>>, env |-> EmptyEnv]

DummyMergeWith == FALSE

\* AbstractState::mergeWith; ok is FALSE when the stack depth assertion
\* fails, which ends the process before the environments are merged.
StateMergeWith(self, other, D) ==
    LET s == StackMergeWith(self.stack, other.stack)
        e == EnvMergeWith(self.env, other.env, D)
    IN  IF ~s.ok
        THEN [state |-> [stack |-> s.stack, env |-> self.env],
              result |-> FALSE, ok |-> FALSE]
        ELSE [state  |-> [stack |-> s.stack, env |-> e.env],
              result |-> DummyMergeWith \/ s.result \/ e.result,
              ok     |-> TRUE]

\* clone(): a deep copy, the parent chain included.
Clone(s) == [stack |-> s.stack, env |-> [i \in 1..Len(s.env) |-> s.env[i]]]

(***************************************************************************)
(* The receiver: the effect of dispatching one instruction on the current  *)
(* state.  Every instruction carries the name of its effect; the effects   *)
(* read and write bindings through the state's non-const operator[].       *)
(***************************************************************************)
\* The keys the receiver's effects bind.
Keys == {"x", "y"}

Ops == {"nop", "ix", "iy", "mn", "cp"}

\* The value of key k in s once it has been indexed (bound to top() if new).
Indexed(s, k, D) == EnvRef(s.env, k, D)[1][k]

Effect(op, s, D) ==
    CASE op = "nop" -> s
      [] op = "ix" ->   \* s[x] = min(s[x] + 1, top)
            [s EXCEPT !.env =
                EnvAssign(s.env, "x", Min(Indexed(s, "x", D) + 1, D.top), D)]
      [] op = "iy" ->   \* s[y] = min(s[y] + 1, top)
            [s EXCEPT !.env =
                EnvAssign(s.env, "y", Min(Indexed(s, "y", D) + 1, D.top), D)]
      [] op = "mn" ->   \* s[x] = min(s[x], s[y])
            LET e == EnvRef(EnvRef(s.env, "x", D), "y", D)
            IN  [s EXCEPT !.env =
                    EnvAssign(e, "x", Min(e[1]["x"], e[1]["y"]), D)]
      [] op = "cp" ->   \* s[y] = s[x]
            LET e == EnvRef(s.env, "x", D)
            IN  [s EXCEPT !.env = EnvAssign(e, "y", e[1]["x"], D)]

(***************************************************************************)
(* The code object: a sequence of instructions [k, t, op] where k is the   *)
(* kind (plain, label, unconditional jump, conditional jump, exit), t the  *)
(* jump target (0 if none) and op the receiver's effect.                   *)
(***************************************************************************)
P == [k |-> "op", t |-> 0]
L == [k |-> "label", t |-> 0]
R == [k |-> "ret", t |-> 0]
J(t) == [k |-> "br", t |-> t]
C(t) == [k |-> "brc", t |-> t]

\* The control skeletons analysed, each with the positions whose effect varies.
Shapes ==
    { [name |-> "line",     ins |-> <<P, P, R>>, slots |-> {1, 2, 3}],
      [name |-> "loop",     ins |-> <<L, P, P, J(1)>>, slots |-> {2, 3}],
      [name |-> "loopx",    ins |-> <<P, L, P, P, C(2), R>>, slots |-> {1, 3, 4}],
      [name |-> "loop2",    ins |-> <<L, P, C(1), P, C(1), R>>, slots |-> {2, 4}],
      [name |-> "nest",     ins |-> <<L, P, L, P, C(3), C(1), R>>, slots |-> {2, 4}],
      [name |-> "diamond",  ins |-> <<C(4), P, J(6), L, P, L, P, R>>,
                            slots |-> {2, 5, 7}],
      [name |-> "diamondj", ins |-> <<C(4), P, J(7), L, P, J(7), L, P, R>>,
                            slots |-> {2, 5, 8}],
      [name |-> "dead",     ins |-> <<J(3), P, L, P, R>>, slots |-> {2, 4}],
      [name |-> "exits",    ins |-> <<C(4), P, R, L, P, R>>, slots |-> {2, 5}],
      [name |-> "tail",     ins |-> <<P, C(6), L, P, R, L, P, J(3)>>,
                            slots |-> {1, 4, 7}],
      [name |-> "deadjump", ins |-> <<P, L, R, J(2)>>, slots |-> {1}] }

Fill(sh, f) ==
    [i \in 1..Len(sh.ins) |->
        [k  |-> sh.ins[i].k, t |-> sh.ins[i].t,
         op |-> IF i \in sh.slots THEN f[i] ELSE "nop"]]

Programs == UNION { { Fill(sh, f) : f \in [sh.slots -> Ops] } : sh \in Shapes }

\* The programs a driver that was used before is run on again.
AgainPrograms ==
    { Fill(sh, [i \in sh.slots |-> "iy"]) :
        sh \in { t \in Shapes : t.name \in {"line", "loop", "tail"} } }

\* The control skeleton of a program: its instructions without their effects.
Skeleton(code) == [i \in 1..Len(code) |-> [k |-> code[i].k, t |-> code[i].t]]
ShapeOf(name) == (CHOOSE sh \in Shapes : sh.name = name).ins
IsShape(code, name) == Skeleton(code) = ShapeOf(name)

\* CodeEditor: sequence boundaries and classification predicates.
Begin(code) == 1
End(code) == Len(code) + 1
RBegin(code) == Len(code)
REnd(code) == 0
InCode(code, i) == i \in 1..Len(code)
isLabel(code, i) == InCode(code, i) /\ code[i].k = "label"
isJmp(code, i) == InCode(code, i) /\ code[i].k \in {"br", "brc"}
isUncondJmp(code, i) == InCode(code, i) /\ code[i].k = "br"
isExitPoint(code, i) == InCode(code, i) /\ code[i].k = "ret"
isEntryPoint(code, i) == i = Begin(code)
target(code, i) == code[i].t
\* CodeEditor::next: the immediate successors of an instruction.
next(code, i) ==
    CASE code[i].k = "ret" -> {}
      [] code[i].k = "br"  -> {code[i].t}
      [] code[i].k = "brc" -> {i + 1, code[i].t}
      [] OTHER             -> {i + 1}

\* The states an analysis starts from: the default (empty) state, and one
\* with both keys bound to the least value.
InitialStates ==
    { EmptyState,
      [stack |-> <<>>, env |-> << [k \in Keys |-> 0] >>] }

\* Dispatcher::dispatch on the current state (an instruction dispatcher whose
\* receiver applies the instruction's effect).
Dispatch(code, i, s, D) == Effect(code[i].op, s, D)

(***************************************************************************)
(* Driver state.  The drivers' fields keep their names; dom is the value   *)
(* domain of the analysis' ASTATE; pc is the position of the driver:       *)
(*   "idle"  no code bound                                                 *)
(*   "queue" at the test of the worklist loop                              *)
(*   "walk"  inside the walk of one branch                                 *)
(*   "ready" analyze() has returned, the retrieval cache is initialised    *)
(*   "abort" an assertion failed                                           *)
(* visits and enq count, per location, the arrivals of the walk at a merge *)
(* point and the pushes on the worklist; restarted tells that the last     *)
(* query initialised the cache again (history variables).  kind is the     *)
(* class of the driver object ("none" before its first use), and live the  *)
(* number of State objects allocated by the driver and not yet deleted;    *)
(* again tells that the driver had been used before its last analyze().    *)
(***************************************************************************)
VARIABLES code_, dom, initialState_, currentState_, finalState_,
          currentIns_, mergePoints_, jumpOrigins_, q_, pc, visits, enq,
          restarted, kind, live, again

driverVars == <<code_, dom, initialState_, currentState_, finalState_,
                currentIns_, mergePoints_, jumpOrigins_, q_, pc, visits, enq,
                restarted, kind, live, again>>

(***************************************************************************)
(* Dispatcher state (framework.h, dispatchers.h): one dispatcher object,   *)
(* its success_ flag, the caller's cursor, and what the last dispatch()    *)
(* did (lastCall, a history record); ncalls counts the dispatch() calls    *)
(* made and prevFailed tells that the call before the last one failed.     *)
(***************************************************************************)
VARIABLES dispatcher, success_, cursor, lastCall, ncalls, prevFailed

dispVars == <<dispatcher, success_, cursor, lastCall, ncalls, prevFailed>>

(***************************************************************************)
(* Operands and result of a merge of stacks, environments or states        *)
(* (State.h) called on its own.                                            *)
(***************************************************************************)
VARIABLES lhs, rhs, res

mergeVars == <<lhs, rhs, res>>

(***************************************************************************)
(* Environments as objects (State.h): heap holds the AbstractEnvironment   *)
(* objects allocated, each with its map env_ and its pointer parent_ (the  *)
(* index of another object, 0 for nullptr).  orig, copy and extra are the  *)
(* environments a program holds: one it was given, the clone it made of    *)
(* that one (0 before), and an unrelated one.  nops counts the calls that  *)
(* changed an environment, lastOp records the last call (history).         *)
(***************************************************************************)
VARIABLES heap, orig, copy, extra, nops, lastOp

envVars == <<heap, orig, copy, extra, nops, lastOp>>

vars == <<driverVars, dispVars, mergeVars, envVars>>

\* std::unordered_map<Iterator, State*>: a function on the keys it holds.
MapGet(mp, k) == IF k \in DOMAIN mp THEN mp[k] ELSE Null
MapPut(mp, k, v) == (k :> v) @@ mp
\* operator[] used for reading: a key not held is inserted with nullptr.
MapTouch(mp, k) == IF k \in DOMAIN mp THEN mp ELSE (k :> Null) @@ mp

Bump(f, k) == [f EXCEPT ![k] = Min(@ + 1, CountCap)]

\* The driver's fields as one record.
Driver ==
    [currentIns_ |-> currentIns_, currentState_ |-> currentState_,
     finalState_ |-> finalState_, mergePoints_ |-> mergePoints_,
     q_ |-> q_, pc |-> pc, visits |-> visits, enq |-> enq, live |-> live]

SetDriver(e) ==
  \E d \in {e} :
    /\ currentIns_' = d.currentIns_
    /\ currentState_' = d.currentState_
    /\ finalState_' = d.finalState_
    /\ mergePoints_' = d.mergePoints_
    /\ q_' = d.q_
    /\ pc' = d.pc
    /\ visits' = d.visits
    /\ enq' = d.enq
    /\ live' = d.live
    /\ UNCHANGED <<dispVars, mergeVars, envVars>>

(***************************************************************************)
(* ForwardAnalysis                                                         *)
(***************************************************************************)

\* The merge-point handling without the case of a branch taken from the
\* queue: the missing incoming state is merged (a null dereference).
AtMergePointNoAdopt(d, i, D) ==
    LET stored == MapGet(d.mergePoints_, i)
    IN  IF stored = Null
        THEN IF d.currentState_ = Null
             THEN [d EXCEPT !.pc = "abort"]
             ELSE [d EXCEPT !.mergePoints_ =
                       MapPut(@, i, New(Clone(Deref(d.currentState_)))),
                            !.live = @ + 1]
        ELSE IF d.currentState_ = Null
        THEN [d EXCEPT !.pc = "abort"]
        ELSE LET m == StateMergeWith(Deref(stored), Deref(d.currentState_), D)
             IN  IF ~m.ok
                 THEN [d EXCEPT !.pc = "abort"]
                 ELSE IF m.result
                 THEN [d EXCEPT !.mergePoints_ = MapPut(@, i, New(m.state)),
                                !.currentState_ = New(Clone(m.state))]
                 ELSE [d EXCEPT !.currentState_ = Null, !.pc = "queue",
                                !.live = @ - 1]

\* The merge-point handling going on with the incoming state after a merge
\* that changed the snapshot, instead of a clone of the merged snapshot.
AtMergePointNoReload(d, i, D) ==
    LET stored == MapGet(d.mergePoints_, i)
    IN  IF stored = Null
        THEN IF d.currentState_ = Null
             THEN [d EXCEPT !.pc = "abort"]
             ELSE [d EXCEPT !.mergePoints_ =
                       MapPut(@, i, New(Clone(Deref(d.currentState_)))),
                            !.live = @ + 1]
        ELSE IF d.currentState_ = Null
        THEN [d EXCEPT !.currentState_ = New(Clone(Deref(stored))),
                       !.live = @ + 1]
        ELSE LET m == StateMergeWith(Deref(stored), Deref(d.currentState_), D)
             IN  IF ~m.ok
                 THEN [d EXCEPT !.pc = "abort"]
                 ELSE IF m.result
                 THEN [d EXCEPT !.mergePoints_ = MapPut(@, i, New(m.state))]
                 ELSE [d EXCEPT !.currentState_ = Null, !.pc = "queue",
                                !.live = @ - 1]

\* The merge-point handling shared by both drivers: the walk is at merge
\* point i.  brk tells that the branch ends here.
AtMergePoint(d, i, D) ==
    LET stored == MapGet(d.mergePoints_, i)
    IN  IF stored = Null
        THEN IF d.currentState_ = Null
             THEN [d EXCEPT !.pc = "abort"]
             ELSE [d EXCEPT !.mergePoints_ =
                       MapPut(@, i, New(Clone(Deref(d.currentState_)))),
                            !.live = @ + 1]
        ELSE IF d.currentState_ = Null
        THEN [d EXCEPT !.currentState_ = New(Clone(Deref(stored))),
                       !.live = @ + 1]
        ELSE LET m == StateMergeWith(Deref(stored), Deref(d.currentState_), D)
             IN  IF ~m.ok
                 THEN [d EXCEPT !.pc = "abort"]
                 ELSE IF m.result
                 THEN [d EXCEPT !.mergePoints_ = MapPut(@, i, New(m.state)),
                                !.currentState_ = New(Clone(m.state))]
                 ELSE [d EXCEPT !.currentState_ = Null, !.pc = "queue",
                                !.live = @ - 1]

\* shouldJump answering true whatever the merge reports.
ShouldJumpAlways(mp, cur, l, D) ==
    LET stored == MapGet(mp, l)
    IN  IF stored = Null
        THEN [mergePoints_ |-> MapPut(mp, l, New(Clone(Deref(cur)))),
              result |-> TRUE, ok |-> TRUE, alloc |-> 1]
        ELSE LET m == StateMergeWith(Deref(stored), Deref(cur), D)
             IN  [mergePoints_ |-> MapPut(mp, l, New(m.state)),
                  result |-> TRUE, ok |-> m.ok, alloc |-> 0]

\* shouldJump that never takes the jump to a target that has a snapshot, and
\* merges nothing into it.
ShouldJumpStale(mp, cur, l, D) ==
    LET stored == MapGet(mp, l)
    IN  IF stored = Null
        THEN [mergePoints_ |-> MapPut(mp, l, New(Clone(Deref(cur)))),
              result |-> TRUE, ok |-> TRUE, alloc |-> 1]
        ELSE [mergePoints_ |-> mp, result |-> FALSE, ok |-> TRUE, alloc |-> 0]

\* shouldJump answering false for a target that had no snapshot.
ShouldJumpNever(mp, cur, l, D) ==
    LET stored == MapGet(mp, l)
    IN  IF stored = Null
        THEN [mergePoints_ |-> MapPut(mp, l, New(Clone(Deref(cur)))),
              result |-> FALSE, ok |-> TRUE, alloc |-> 1]
        ELSE LET m == StateMergeWith(Deref(stored), Deref(cur), D)
             IN  [mergePoints_ |-> MapPut(mp, l, New(m.state)),
                  result |-> m.result, ok |-> m.ok, alloc |-> 0]

\* shouldJump storing the incoming state in place of a snapshot that the
\* merge would change.
ShouldJumpReplace(mp, cur, l, D) ==
    LET stored == MapGet(mp, l)
    IN  IF stored = Null
        THEN [mergePoints_ |-> MapPut(mp, l, New(Clone(Deref(cur)))),
              result |-> TRUE, ok |-> TRUE, alloc |-> 1]
        ELSE LET m == StateMergeWith(Deref(stored), Deref(cur), D)
             IN  [mergePoints_ |-> IF m.result
                                   THEN MapPut(mp, l, New(Clone(Deref(cur))))
                                   ELSE mp,
                  result |-> m.result, ok |-> m.ok, alloc |-> 0]

\* ForwardAnalysis::shouldJump (and BackwardAnalysis::shouldFollowJumpFrom):
\* the merge-point table after the test, and the answer.
ShouldJump(mp, cur, l, D) ==
    LET stored == MapGet(mp, l)
    IN  IF stored = Null
        THEN [mergePoints_ |-> MapPut(mp, l, New(Clone(Deref(cur)))),
              result |-> TRUE, ok |-> TRUE, alloc |-> 1]
        ELSE LET m == StateMergeWith(Deref(stored), Deref(cur), D)
             IN  [mergePoints_ |-> MapPut(mp, l, New(m.state)),
                  result |-> m.result, ok |-> m.ok, alloc |-> 0]

\* A final state that stays what the first branch made it.
MergeFinalFirst(fin, cur, D) ==
    IF fin = Null THEN cur ELSE fin

\* The final state after the walk ended a branch with state cur.
MergeFinal(fin, cur, D) ==
    IF fin = Null THEN cur
    ELSE New(StateMergeWith(Deref(fin), Deref(cur), D).state)

\* The jump of instruction i, after its dispatch.
FwdJump(d, code, i, D) ==
    LET l == target(code, i)
        j == ShouldJump(d.mergePoints_, d.currentState_, l, D)
        e == [d EXCEPT !.mergePoints_ = j.mergePoints_,
                       !.q_ = IF j.result THEN <<l>> \o @ ELSE @,
                       !.enq = IF j.result THEN Bump(@, l) ELSE @,
                       !.live = @ + j.alloc]
    IN  IF ~j.ok THEN [d EXCEPT !.pc = "abort"]
        ELSE IF isUncondJmp(code, i)
        THEN [e EXCEPT !.currentState_ = Null, !.pc = "queue", !.live = @ - 1]
        ELSE [e EXCEPT !.currentIns_ = i + 1]

\* An exit point that leaves the state it hands over to the final state in
\* the current state as well.
FwdExitShared(d, D) ==
    [d EXCEPT !.finalState_ = MergeFinal(d.finalState_, d.currentState_, D),
              !.pc = "queue",
              !.live = IF d.finalState_ = Null THEN @ ELSE @ - 1]

\* The exit point i, after its dispatch.
FwdExit(d, D) ==
    [d EXCEPT !.finalState_ = MergeFinal(d.finalState_, d.currentState_, D),
              !.currentState_ = Null, !.pc = "queue",
              !.live = IF d.finalState_ = Null THEN @ ELSE @ - 1]

\* The walk testing for the exit point before the dispatch: the effect of
\* the exit instruction is lost.
FwdWalkExitFirst(d, code, D) ==
    LET i == d.currentIns_
        a == IF isLabel(code, i)
             THEN AtMergePoint([d EXCEPT !.visits = Bump(@, i)], i, D)
             ELSE d
        b == [a EXCEPT !.currentState_ =
                 New(Dispatch(code, i, Deref(a.currentState_), D))]
    IN  IF a.pc # "walk" THEN a
        ELSE IF isExitPoint(code, i) THEN FwdExit(a, D)
        ELSE IF isJmp(code, i) THEN FwdJump(b, code, i, D)
        ELSE [b EXCEPT !.currentIns_ = i + 1]

\* One iteration of the walk of ForwardAnalysis::doAnalyze.
FwdWalk(d, code, D) ==
    LET i == d.currentIns_
        a == IF isLabel(code, i)
             THEN AtMergePoint([d EXCEPT !.visits = Bump(@, i)], i, D)
             ELSE d
        b == [a EXCEPT !.currentState_ =
                 New(Dispatch(code, i, Deref(a.currentState_), D))]
    IN  IF a.pc # "walk" THEN a
        ELSE IF isJmp(code, i) THEN FwdJump(b, code, i, D)
        ELSE IF isExitPoint(code, i) THEN FwdExit(b, D)
        ELSE [b EXCEPT !.currentIns_ = i + 1]

\* A worklist loop that takes the back of the queue instead: the pending
\* locations are then processed first-in-first-out.
FwdPopBack(d) ==
    [d EXCEPT !.currentIns_ = d.q_[Len(d.q_)],
              !.q_ = SubSeq(d.q_, 1, Len(d.q_) - 1), !.pc = "walk"]

\* A worklist loop that takes the location enqueued first.
FwdPopOldest(d) ==
    [d EXCEPT !.currentIns_ = d.q_[Len(d.q_)],
              !.q_ = [j \in 1..(Len(d.q_) - 1) |-> d.q_[j]], !.pc = "walk"]

\* The worklist loop takes the front of the queue.
FwdPop(d) ==
    [d EXCEPT !.currentIns_ = Head(d.q_), !.q_ = Tail(d.q_), !.pc = "walk"]

\* The driver when doAnalyze enters its worklist loop.
FwdStart(code, s0) ==
    [currentIns_ |-> Begin(code), currentState_ |-> New(Clone(s0)),
     finalState_ |-> Null, mergePoints_ |-> <<>>,
     q_ |-> <<Begin(code)>>, pc |-> "queue",
     visits |-> [i \in 1..Len(code) |-> 0],
     enq |-> [i \in 1..Len(code) |-> IF i = Begin(code) THEN 1 ELSE 0],
     live |-> 2]

\* The number of State objects a pointer, or a merge-point table, holds.
Owned(p) == IF p = Null THEN 0 ELSE 1
OwnedIn(mp) == Cardinality({ k \in DOMAIN mp : mp[k] # Null })

\* ForwardAnalysis::doAnalyze up to its worklist loop, on the driver as it
\* is: the fields doAnalyze does not assign keep what they hold.
FwdDoAnalyze(d, code, s0) ==
    [d EXCEPT !.currentState_ = New(Clone(s0)),
              !.q_ = <<Begin(code)>> \o @,
              !.pc = "queue",
              !.visits = [i \in 1..Len(code) |-> 0],
              !.enq = [i \in 1..Len(code) |-> IF i = Begin(code) THEN 1 ELSE 0],
              !.live = @ + 2]

\* An invalidate that leaves the final state in place.
FwdInvalidateKeepFinal(d, init) ==
    [d EXCEPT !.currentState_ = Null,
              !.mergePoints_ = <<>>,
              !.pc = "idle",
              !.visits = <<>>,
              !.enq = <<>>,
              !.live = @ - (Owned(d.currentState_) + Owned(init)
                              + OwnedIn(d.mergePoints_))]

\* ForwardAnalysis::invalidate on the driver's fields; init is the initial
\* state, which is deleted and reset as well.
FwdInvalidate(d, init) ==
    [d EXCEPT !.currentState_ = Null,
              !.finalState_ = Null,
              !.mergePoints_ = <<>>,
              !.pc = "idle",
              !.visits = <<>>,
              !.enq = <<>>,
              !.live = @ - (Owned(d.currentState_) + Owned(init)
                              + Owned(d.finalState_) + OwnedIn(d.mergePoints_))]

\* ForwardAnalysisIns::initializeCache.
FwdInitializeCache(d, code, s0) ==
    [d EXCEPT !.currentState_ = New(Clone(s0)), !.currentIns_ = Begin(code),
              !.live = IF d.currentState_ = Null THEN @ + 1 ELSE @]

\* ForwardAnalysisIns::advance.
FwdAdvance(d, code, D) ==
    LET i == d.currentIns_
        n == i + 1
        s == New(Dispatch(code, i, Deref(d.currentState_), D))
        fixpoint == MapGet(d.mergePoints_, n)
    IN  IF isLabel(code, n)
        THEN [d EXCEPT !.currentIns_ = n,
                       !.mergePoints_ = MapTouch(@, n),
                       !.currentState_ =
                           IF fixpoint # Null THEN New(Clone(Deref(fixpoint)))
                           ELSE s]
        ELSE [d EXCEPT !.currentIns_ = n, !.currentState_ = s]

RECURSIVE FwdSeekLinear(_, _, _, _, _)
\* The loops of ForwardAnalysisIns::seek; stop tells the first loop, which
\* gives up at an exit point.  The loop ends at ins or at end().
FwdSeekLinear(d, code, ins, stop, D) ==
    IF d.currentIns_ = End(code) \/ d.currentIns_ = ins THEN d
    ELSE IF stop /\ isExitPoint(code, d.currentIns_) THEN d
    ELSE FwdSeekLinear(FwdAdvance(d, code, D), code, ins, stop, D)

\* A seek that starts over at the first instruction with the state it has.
FwdSeekKeepState(d, code, ins, s0, D) ==
    LET a == FwdSeekLinear(d, code, ins, TRUE, D)
        b == FwdSeekLinear([a EXCEPT !.currentIns_ = Begin(code)],
                           code, ins, FALSE, D)
    IN  IF a.currentIns_ = ins THEN a
        ELSE IF b.currentIns_ = ins THEN b
        ELSE [b EXCEPT !.pc = "abort"]

\* ForwardAnalysisIns::seek.
FwdSeek(d, code, ins, s0, D) ==
    LET a == FwdSeekLinear(d, code, ins, TRUE, D)
        b == FwdSeekLinear(FwdInitializeCache(a, code, s0), code, ins, FALSE, D)
    IN  IF a.currentIns_ = ins THEN a
        ELSE IF b.currentIns_ = ins THEN b
        ELSE [b EXCEPT !.pc = "abort"]

\* ForwardAnalysisIns::operator[]: the driver after the query; the state
\* returned is its current state.
FwdStateAt(d, code, ins, s0, D) ==
    IF ins # d.currentIns_ THEN FwdSeek(d, code, ins, s0, D) ELSE d

RECURSIVE FwdRun(_, _, _, _)
\* The worklist loop run to its end from driver d, first-in-first-out if fifo.
FwdRun(d, code, D, fifo) ==
    IF d.pc = "walk" THEN FwdRun(FwdWalk(d, code, D), code, D, fifo)
    ELSE IF d.pc = "queue" /\ d.q_ # <<>>
    THEN FwdRun(IF fifo THEN FwdPopBack(d) ELSE FwdPop(d), code, D, fifo)
    ELSE d

(***************************************************************************)
(* BackwardAnalysis                                                        *)
(***************************************************************************)

\* BackwardAnalysis::isMergePoint.
isMergePoint(code, i) == isJmp(code, i)

RECURSIVE PrePass(_, _, _)
\* The first loop of BackwardAnalysis::doAnalyze from location it on: the
\* jump origins recorded and the exit points pushed on the worklist.
PrePass(code, it, r) ==
    IF it = End(code) THEN r
    ELSE PrePass(code, it + 1,
           [jumpOrigins_ |->
                IF isJmp(code, it)
                THEN MapPut(r.jumpOrigins_, target(code, it),
                            Append(MapGet(r.jumpOrigins_, target(code, it)), it))
                ELSE r.jumpOrigins_,
            q_ |-> IF isExitPoint(code, it) THEN <<it>> \o r.q_ ELSE r.q_])

\* The driver when doAnalyze enters its worklist loop.
BwdStart(code) ==
    [currentIns_ |-> 0, currentState_ |-> Null,
     finalState_ |-> Null, mergePoints_ |-> <<>>,
     q_ |-> PrePass(code, Begin(code), [jumpOrigins_ |-> <<>>, q_ |-> <<>>]).q_,
     pc |-> "queue",
     visits |-> [i \in 1..Len(code) |-> 0],
     enq |-> [i \in 1..Len(code) |-> IF isExitPoint(code, i) THEN 1 ELSE 0],
     live |-> 1]

\* BackwardAnalysis::doAnalyze up to its worklist loop, on the driver as it
\* is; jo are the jump origins held before.
BwdDoAnalyze(d, code, jo) ==
    [d EXCEPT !.q_ = PrePass(code, Begin(code),
                             [jumpOrigins_ |-> jo, q_ |-> d.q_]).q_,
              !.pc = "queue",
              !.visits = [i \in 1..Len(code) |-> 0],
              !.enq = [i \in 1..Len(code) |->
                          IF isExitPoint(code, i) THEN 1 ELSE 0],
              !.live = @ + 1]

\* BackwardAnalysis::invalidate on the driver's fields, and on the jump
\* origins.
BwdInvalidate(d, init) ==
    [d EXCEPT !.currentState_ = Null,
              !.finalState_ = Null,
              !.mergePoints_ = <<>>,
              !.pc = "idle",
              !.visits = <<>>,
              !.enq = <<>>,
              !.live = @ - (Owned(d.currentState_) + Owned(init)
                              + Owned(d.finalState_) + OwnedIn(d.mergePoints_))]

\* The jump origins kept as they are.
BwdOriginsKept(jo) == jo

\* jumpOrigins_.clear() of BackwardAnalysis::invalidate.
BwdInvalidateOrigins(jo) == <<>>

RECURSIVE FollowJumps(_, _, _)
\* The loop over the jump origins of a label: each origin is tested with
\* shouldFollowJumpFrom and pushed if the test says so.
FollowJumps(d, origins, D) ==
    IF origins = <<>> \/ d.pc # "walk" THEN d
    ELSE LET o == Head(origins)
             j == ShouldJump(d.mergePoints_, d.currentState_, o, D)
         IN  FollowJumps(
               IF ~j.ok THEN [d EXCEPT !.pc = "abort"]
               ELSE [d EXCEPT !.mergePoints_ = j.mergePoints_,
                              !.q_ = IF j.result THEN <<o>> \o @ ELSE @,
                              !.enq = IF j.result THEN Bump(@, o) ELSE @,
                              !.live = @ + j.alloc],
               Tail(origins), D)

\* A label after which the walk always steps to the previous instruction.
BwdLabelFallThrough(d, code, jo, i, D) ==
    LET e == FollowJumps(d, MapGet(jo, i), D)
    IN  IF e.pc # "walk" THEN e
        ELSE [e EXCEPT !.currentIns_ = i - 1]

\* The label i, after its dispatch.
BwdLabel(d, code, jo, i, D) ==
    LET e == FollowJumps(d, MapGet(jo, i), D)
    IN  IF e.pc # "walk" THEN e
        ELSE IF isExitPoint(code, i - 1) \/ i \notin next(code, i - 1)
        THEN [e EXCEPT !.currentState_ = Null, !.pc = "queue", !.live = @ - 1]
        ELSE [e EXCEPT !.currentIns_ = i - 1]

\* One iteration of the walk of BackwardAnalysis::doAnalyze.
BwdWalk(d, code, jo, s0, D) ==
    LET i == d.currentIns_
        a == IF isExitPoint(code, i)
             THEN IF d.currentState_ # Null
                  THEN [d EXCEPT !.pc = "abort"]
                  ELSE [d EXCEPT !.currentState_ = New(Clone(s0)),
                                 !.live = @ + 1]
             ELSE IF isMergePoint(code, i)
             THEN AtMergePoint([d EXCEPT !.visits = Bump(@, i)], i, D)
             ELSE d
        b == [a EXCEPT !.currentState_ =
                 New(Dispatch(code, i, Deref(a.currentState_), D))]
    IN  IF a.pc # "walk" THEN a
        ELSE IF isEntryPoint(code, i)
        THEN [b EXCEPT !.finalState_ =
                           MergeFinal(b.finalState_, b.currentState_, D),
                       !.currentState_ = Null, !.pc = "queue",
                       !.live = IF b.finalState_ = Null THEN @ ELSE @ - 1]
        ELSE IF isLabel(code, i) THEN BwdLabel(b, code, jo, i, D)
        ELSE [b EXCEPT !.currentIns_ = i - 1]

RECURSIVE BwdRun(_, _, _, _, _)
\* The backward worklist loop run to its end from driver d.
BwdRun(d, code, jo, s0, D) ==
    IF d.pc = "walk" THEN BwdRun(BwdWalk(d, code, jo, s0, D), code, jo, s0, D)
    ELSE IF d.pc = "queue" /\ d.q_ # <<>>
    THEN BwdRun(FwdPop(d), code, jo, s0, D)
    ELSE d

\* BackwardAnalysisIns::initializeCache.
BwdInitializeCache(d, code, s0, D) ==
    [d EXCEPT !.currentIns_ = RBegin(code),
              !.currentState_ = New(Dispatch(code, RBegin(code), Clone(s0), D)),
              !.live = IF d.currentState_ = Null THEN @ + 1 ELSE @]

\* BackwardAnalysisIns::advance to a location of the code.
BwdAdvance(d, code, s0, D) ==
    LET i == d.currentIns_ - 1
        fixpoint == MapGet(d.mergePoints_, i)
        s == IF isExitPoint(code, i) THEN Clone(s0)
             ELSE IF isMergePoint(code, i) /\ fixpoint # Null
             THEN Clone(Deref(fixpoint))
             ELSE Deref(d.currentState_)
    IN  [d EXCEPT !.currentIns_ = i,
                  !.mergePoints_ = IF ~isExitPoint(code, i) /\ isMergePoint(code, i)
                                   THEN MapTouch(@, i) ELSE @,
                  !.currentState_ = New(Dispatch(code, i, s, D))]

RECURSIVE BwdSeekLinear(_, _, _, _, _)
\* A loop of BackwardAnalysisIns::seek, stopped where advance would step from
\* the first instruction to rend().
BwdSeekLinear(d, code, ins, s0, D) ==
    IF d.currentIns_ = ins \/ d.currentIns_ = Begin(code) THEN d
    ELSE BwdSeekLinear(BwdAdvance(d, code, s0, D), code, ins, s0, D)

\* BackwardAnalysisIns::seek.  A loop that does not find ins steps from the
\* first instruction to rend(), which advance classifies and dispatches
\* although it is no instruction: rend tells that this happened.  The cache is
\* then initialised again.
BwdSeek(d, code, ins, s0, D) ==
    LET a == BwdSeekLinear(d, code, ins, s0, D)
        b == BwdSeekLinear(BwdInitializeCache(a, code, s0, D), code, ins, s0, D)
    IN  IF a.currentIns_ = ins THEN [d |-> a, rend |-> FALSE]
        ELSE IF b.currentIns_ = ins THEN [d |-> b, rend |-> TRUE]
        ELSE [d |-> [b EXCEPT !.pc = "abort"], rend |-> TRUE]

\* BackwardAnalysisIns::operator[].
BwdStateAt(d, code, ins, s0, D) ==
    IF ins # d.currentIns_ THEN BwdSeek(d, code, ins, s0, D)
    ELSE [d |-> d, rend |-> FALSE]

----
\* Analysis::analyze on a forward driver, up to the worklist loop of
\* doAnalyze: a driver that has code bound is invalidated first.
Analyze(code, D, s0) ==
    /\ pc \in {"idle", "ready"}
    /\ kind \in {"none", "forward"}
    /\ code_' = code
    /\ dom' = D
    /\ initialState_' = New(s0)
    /\ kind' = "forward"
    /\ again' = (kind # "none")
    /\ restarted' = FALSE
    /\ SetDriver(FwdDoAnalyze(
                    IF code_ # <<>> THEN FwdInvalidate(Driver, initialState_)
                    ELSE Driver,
                    code, s0))
    /\ UNCHANGED jumpOrigins_

\* ForwardAnalysis::invalidate (also run by the destructor).
Invalidate ==
    /\ pc \in {"idle", "ready"}
    /\ kind \in {"none", "forward"}
    /\ code_' = <<>>
    /\ initialState_' = Null
    /\ restarted' = FALSE
    /\ SetDriver(FwdInvalidate(Driver, initialState_))
    /\ UNCHANGED <<dom, jumpOrigins_, kind, again>>

\* The worklist loop of doAnalyze takes the next location.
Pop ==
    /\ pc = "queue"
    /\ kind = "forward"
    /\ q_ # <<>>
    /\ SetDriver(FwdPop(Driver))
    /\ UNCHANGED <<code_, dom, initialState_, jumpOrigins_, restarted, kind, again>>

\* One iteration of the walk.
Walk ==
    /\ pc = "walk"
    /\ kind = "forward"
    /\ SetDriver(FwdWalk(Driver, code_, dom))
    /\ UNCHANGED <<code_, dom, initialState_, jumpOrigins_, restarted, kind, again>>

\* The worklist is empty: doAnalyze initialises the cache and analyze returns.
Finish ==
    /\ pc = "queue"
    /\ kind = "forward"
    /\ q_ = <<>>
    /\ SetDriver([FwdInitializeCache(Driver, code_, Deref(initialState_))
                    EXCEPT !.pc = "ready"])
    /\ UNCHANGED <<code_, dom, initialState_, jumpOrigins_, restarted, kind, again>>

\* A query operator[](ins) for a location of the code.
StateAt(ins) ==
    /\ pc = "ready"
    /\ kind = "forward"
    /\ SetDriver(FwdStateAt(Driver, code_, ins, Deref(initialState_), dom))
    /\ restarted' =
         (FwdSeekLinear(Driver, code_, ins, TRUE, dom).currentIns_ # ins)
    /\ UNCHANGED <<code_, dom, initialState_, jumpOrigins_, kind, again>>

\* Analysis::analyze on a backward driver, up to the worklist loop of
\* doAnalyze: a driver that has code bound is invalidated first.
BAnalyze(code, D, s0) ==
    /\ pc \in {"idle", "ready"}
    /\ kind \in {"none", "backward"}
    /\ code_' = code
    /\ dom' = D
    /\ initialState_' = New(s0)
    /\ kind' = "backward"
    /\ again' = (kind # "none")
    /\ restarted' = FALSE
    /\ \E d \in {IF code_ # <<>> THEN BwdInvalidate(Driver, initialState_)
                  ELSE Driver},
          jo \in {IF code_ # <<>> THEN BwdInvalidateOrigins(jumpOrigins_)
                   ELSE jumpOrigins_} :
          /\ jumpOrigins_' =
                PrePass(code, Begin(code),
                        [jumpOrigins_ |-> jo, q_ |-> d.q_]).jumpOrigins_
          /\ SetDriver(BwdDoAnalyze(d, code, jo))

\* BackwardAnalysis::invalidate (also run by the destructor).
BInvalidate ==
    /\ pc \in {"idle", "ready"}
    /\ kind \in {"none", "backward"}
    /\ code_' = <<>>
    /\ initialState_' = Null
    /\ restarted' = FALSE
    /\ jumpOrigins_' = BwdInvalidateOrigins(jumpOrigins_)
    /\ SetDriver(BwdInvalidate(Driver, initialState_))
    /\ UNCHANGED <<dom, kind, again>>

\* The worklist loop of the backward doAnalyze takes the next location.
BPop ==
    /\ pc = "queue"
    /\ kind = "backward"
    /\ q_ # <<>>
    /\ SetDriver(FwdPop(Driver))
    /\ UNCHANGED <<code_, dom, initialState_, jumpOrigins_, restarted, kind, again>>

\* One iteration of the backward walk.  Reading the origins of a label that
\* has none inserts an empty list.
BWalk ==
    /\ pc = "walk"
    /\ kind = "backward"
    /\ SetDriver(BwdWalk(Driver, code_, jumpOrigins_, Deref(initialState_), dom))
    /\ jumpOrigins_' =
         IF isLabel(code_, currentIns_) /\ ~isEntryPoint(code_, currentIns_)
         THEN MapTouch(jumpOrigins_, currentIns_) ELSE jumpOrigins_
    /\ UNCHANGED <<code_, dom, initialState_, restarted, kind, again>>

\* The worklist is empty: doAnalyze initialises the cache and analyze returns.
BFinish ==
    /\ pc = "queue"
    /\ kind = "backward"
    /\ q_ = <<>>
    /\ SetDriver([BwdInitializeCache(Driver, code_, Deref(initialState_), dom)
                    EXCEPT !.pc = "ready"])
    /\ UNCHANGED <<code_, dom, initialState_, jumpOrigins_, restarted, kind, again>>

\* A query operator[](ins) for a location of the code.  When seek has stepped
\* to rend() the build decides what classifying and dispatching it does: the
\* process dies, or the query goes on.
BStateAt(ins) ==
    /\ pc = "ready"
    /\ kind = "backward"
    /\ LET r == BwdStateAt(Driver, code_, ins, Deref(initialState_), dom)
       IN  /\ \/ SetDriver(r.d)
              \/ r.rend /\ SetDriver([r.d EXCEPT !.pc = "abort"])
           /\ restarted' = r.rend
    /\ UNCHANGED <<code_, dom, initialState_, jumpOrigins_, kind, again>>

(***************************************************************************)
(* Dispatchers                                                             *)
(***************************************************************************)
\* The most calls of dispatch() made on one dispatcher.
MaxCalls == 3

\* The opcodes of ir/insns.h (each gives a case of doDispatch and a method of
\* Receiver), without the label pseudo-instruction.
Opcodes == {"guard_fun_", "push_", "ret_"}

\* The virtual methods of InstructionDispatcher::Receiver.
Methods == Opcodes \cup {"label", "any"}

\* The opcodes of the instructions of the code dispatched on; the last one
\* is not an opcode doDispatch knows.
DispCode == <<"guard_fun_", "label", "push_", "ret_", "invalid_">>

\* Receivers: the methods a receiver class overrides, each with what its body
\* does: "run" (it does its work and returns) or "fail" (it calls fail() of
\* the dispatcher, which a class that is dispatcher and receiver can do).
Receivers ==
    UNION { [ov -> {"run", "fail"}] : ov \in SUBSET {"guard_fun_", "label", "any"} }

\* Dispatcher classes: InstructionDispatcher with a receiver, and direct
\* subclasses of Dispatcher whose doDispatch fails on some opcodes
\* (SimpleDispatcher of the tests on none, FailDispatcher on all) and may
\* step its own copy of the cursor.
Dispatchers ==
    { [class |-> "instruction", receiver |-> r, failsOn |-> {}, steps |-> FALSE] :
        r \in Receivers }
    \cup
    { [class |-> "user", receiver |-> <<>>, failsOn |-> F, steps |-> a] :
        F \in { {}, {"label", "ret_"}, Methods \cup {"invalid_"} }, a \in BOOLEAN }

\* The record of a call of dispatch() that has not been made.
NoCall ==
    [success_ |-> FALSE, ret |-> FALSE, at |-> 0, ins |-> 0, called |-> <<>>,
     ran |-> <<>>, failed |-> FALSE, ndo |-> 0, dead |-> FALSE]

\* Dispatcher::fail, during the call c.
fail(c) == [c EXCEPT !.success_ = FALSE, !.failed = TRUE]

\* Receiver::any of receiver r: the empty default, or the override.
ReceiverAny(r, c) ==
    LET c1 == [c EXCEPT !.ran = Append(@, "any")]
    IN  IF "any" \in DOMAIN r /\ r["any"] = "fail" THEN fail(c1) ELSE c1

\* A receiver whose overrides pass control to any() as the defaults do.
ReceiverMethodAlsoAny(r, m, c) ==
    LET c1 == [c EXCEPT !.ran = Append(@, m)]
    IN  ReceiverAny(r, IF m \in DOMAIN r /\ r[m] = "fail" THEN fail(c1) ELSE c1)

\* The method m of receiver r, for an opcode or the label: the override if the
\* receiver has one, else the default, which calls any().
ReceiverMethod(r, m, c) ==
    LET c1 == [c EXCEPT !.ran = Append(@, m)]
    IN  IF m \in DOMAIN r
        THEN IF r[m] = "fail" THEN fail(c1) ELSE c1
        ELSE ReceiverAny(r, c1)

\* InstructionDispatcher::doDispatch.
InstructionDoDispatch(d, code, c) ==
    LET bc == code[c.ins]
    IN  IF bc \in Opcodes
        THEN ReceiverMethod(d.receiver, bc, [c EXCEPT !.called = Append(@, bc)])
        ELSE IF bc = "label"
        THEN ReceiverMethod(d.receiver, "label",
                            [c EXCEPT !.called = Append(@, "label")])
        ELSE [c EXCEPT !.dead = TRUE]

\* doDispatch of a direct subclass of Dispatcher.
UserDoDispatch(d, code, c) ==
    LET c1 == IF code[c.ins] \in d.failsOn THEN fail(c) ELSE c
    IN  IF d.steps THEN [c1 EXCEPT !.ins = @ + 1] ELSE c1

\* The virtual call of doDispatch.
doDispatch(d, code, c) ==
    LET c1 == [c EXCEPT !.ndo = @ + 1]
    IN  IF d.class = "instruction"
        THEN InstructionDoDispatch(d, code, c1)
        ELSE UserDoDispatch(d, code, c1)

\* A dispatch that does not reset the success flag.
dispatchNoReset(d, code, succ, ins) ==
    LET c == doDispatch(d, code, [NoCall EXCEPT !.success_ = succ,
                                                !.at = ins, !.ins = ins])
    IN  [c EXCEPT !.ret = c.success_]

\* Dispatcher::dispatch(ins) on dispatcher d whose success flag holds succ.
dispatch(d, code, succ, ins) ==
    LET c == doDispatch(d, code, [NoCall EXCEPT !.success_ = TRUE,
                                                !.at = ins, !.ins = ins])
    IN  [c EXCEPT !.ret = c.success_]

\* The parameter of dispatch bound to the caller's iterator.
ByReference(arg, param) == param

\* The caller's iterator after a call that was given it by value, param being
\* the callee's copy at the end of the call.
ByValue(arg, param) == arg

\* A caller calls dispatch() with its cursor.  A failed assertion ends the
\* process.
DispatchCall ==
    /\ ncalls < MaxCalls
    /\ ~lastCall.dead
    /\ LET c == dispatch(dispatcher, DispCode, success_, cursor)
       IN  /\ lastCall' = c
           /\ success_' = c.success_
           /\ cursor' = ByValue(cursor, c.ins)
    /\ ncalls' = ncalls + 1
    /\ prevFailed' = (ncalls > 0 /\ lastCall.failed)
    /\ UNCHANGED <<dispatcher, driverVars, mergeVars, envVars>>

\* The caller moves its cursor to the next instruction.
StepCursor ==
    /\ ~lastCall.dead
    /\ cursor < Len(DispCode)
    /\ cursor' = cursor + 1
    /\ UNCHANGED <<dispatcher, success_, lastCall, ncalls, prevFailed,
                   driverVars, mergeVars, envVars>>

\* The dispatcher component while the drivers are looked at.
DispIdle ==
    /\ dispatcher = [class |-> "instruction", receiver |-> <<>>,
                     failsOn |-> {}, steps |-> FALSE]
    /\ success_ = FALSE
    /\ cursor = 1
    /\ lastCall = NoCall
    /\ ncalls = 0
    /\ prevFailed = FALSE

(***************************************************************************)
(* Merges called on their own: lhs is the receiver of mergeWith, rhs the   *)
(* argument, dom the value domain; res records the last call: the          *)
(* operation, the receiver before it, the argument, the value returned,    *)
(* ok (FALSE when an assertion failed) and, for a merge made by a driver   *)
(* at a merge point, the driver's position after it.                       *)
(***************************************************************************)
\* The deepest stack and the longest scope chain merged.
MaxDepth == 2
MaxChain == 3

\* Value domains: the chain 0..top with Absent() at its bottom or at its top.
MergeDomains ==
    UNION { { [top |-> t, absent |-> a] : a \in {0, t} } : t \in 1..MaxTop }

\* Stacks of bottom and top values.
MergeStacks(D) ==
    UNION { [1..n -> {0, D.top}] : n \in 0..MaxDepth }

\* Maps binding some of the keys to bottom or top.
MergeMaps(D) == UNION { [ks -> {0, D.top}] : ks \in SUBSET Keys }

\* Scope chains: every chain of one or two maps, and the longest chains
\* made of two of the maps.
MergeEnvs(D) ==
    { <<m>> : m \in MergeMaps(D) }
    \cup { <<m, p>> : m \in MergeMaps(D), p \in MergeMaps(D) }
    \cup [1..MaxChain -> { <<>>, [k \in {"x"} |-> 0] }]

\* The states merged: every stack with a small environment, every
\* environment with an empty stack.
MergeOperands(D) ==
    { [stack |-> s, env |-> e] :
        s \in MergeStacks(D), e \in { EmptyEnv, << [k \in {"x"} |-> 0] >> } }
    \cup { [stack |-> <<>>, env |-> e] : e \in MergeEnvs(D) }

\* No merge made yet.
NoMerge ==
    [op |-> "none", before |-> EmptyState, other |-> EmptyState,
     result |-> FALSE, ok |-> TRUE, pc |-> "idle"]

\* lhs.stack().mergeWith(rhs.stack()).
MergeStack ==
    /\ res.ok
    /\ LET m == StackMergeWith(lhs.stack, rhs.stack)
       IN  /\ lhs' = [lhs EXCEPT !.stack = m.stack]
           /\ res' = [op |-> "stack", before |-> lhs, other |-> rhs,
                      result |-> m.result, ok |-> m.ok, pc |-> "idle"]
    /\ UNCHANGED <<rhs, driverVars, dispVars, envVars>>

\* lhs.env().mergeWith(rhs.env()).
MergeEnv ==
    /\ res.ok
    /\ LET m == EnvMergeWith(lhs.env, rhs.env, dom)
       IN  /\ lhs' = [lhs EXCEPT !.env = m.env]
           /\ res' = [op |-> "env", before |-> lhs, other |-> rhs,
                      result |-> m.result, ok |-> TRUE, pc |-> "idle"]
    /\ UNCHANGED <<rhs, driverVars, dispVars, envVars>>

\* lhs.mergeWith(rhs).
MergeState ==
    /\ res.ok
    /\ LET m == StateMergeWith(lhs, rhs, dom)
       IN  /\ lhs' = m.state
           /\ res' = [op |-> "state", before |-> lhs, other |-> rhs,
                      result |-> m.result, ok |-> m.ok, pc |-> "idle"]
    /\ UNCHANGED <<rhs, driverVars, dispVars, envVars>>

\* The walk of a driver arrives at a merge point whose snapshot is lhs with
\* the current state rhs.
MergeAtMergePoint ==
    /\ res.ok
    /\ LET d == AtMergePoint([Driver EXCEPT !.mergePoints_ = (1 :> New(lhs)),
                                            !.currentState_ = New(rhs),
                                            !.currentIns_ = 1,
                                            !.pc = "walk", !.live = 2],
                             1, dom)
       IN  /\ lhs' = Deref(MapGet(d.mergePoints_, 1))
           /\ res' = [op |-> "label", before |-> lhs, other |-> rhs,
                      result |-> d.pc = "walk", ok |-> d.pc # "abort",
                      pc |-> d.pc]
    /\ UNCHANGED <<rhs, driverVars, dispVars, envVars>>

(***************************************************************************)
(* AbstractEnvironment objects                                             *)
(***************************************************************************)
\* The most calls that change an environment.
MaxOps == 2

RECURSIVE ChainIds(_, _)
\* The objects of the scope chain of object id: itself, its parent, ...
ChainIds(h, id) ==
    IF id = 0 THEN <<>> ELSE <<id>> \o ChainIds(h, h[id].parent_)

\* The scope chain of object id as the sequence of its maps.
ChainOf(h, id) ==
    LET ids == ChainIds(h, id) IN [i \in 1..Len(ids) |-> h[ids[i]].env_]

\* The objects of a chain of maps laid out from index base + 1.
HeapOfChain(c, base) ==
    [i \in 1..Len(c) |->
        [env_ |-> c[i], parent_ |-> IF i < Len(c) THEN base + i + 1 ELSE 0]]

\* A copy that shares the parent of the environment copied.
HeapCloneShallow(h, id) ==
    [heap |-> Append(h, [env_ |-> h[id].env_, parent_ |-> h[id].parent_]),
     id   |-> Len(h) + 1]

RECURSIVE HeapClone(_, _)
\* AbstractEnvironment::clone, the copy constructor: the map is copied, the
\* parent is cloned.
HeapClone(h, id) ==
    IF h[id].parent_ = 0
    THEN [heap |-> Append(h, [env_ |-> h[id].env_, parent_ |-> 0]),
          id   |-> Len(h) + 1]
    ELSE LET p == HeapClone(h, h[id].parent_)
         IN  [heap |-> Append(p.heap, [env_ |-> h[id].env_, parent_ |-> p.id]),
              id   |-> Len(p.heap) + 1]

\* A lookup that does not go to the parent.
HeapFindLocal(h, id, k, D) ==
    IF k \in DOMAIN h[id].env_ THEN h[id].env_[k] ELSE D.top

RECURSIVE HeapFind(_, _, _, _)
\* AbstractEnvironment::find.
HeapFind(h, id, k, D) ==
    IF k \notin DOMAIN h[id].env_
    THEN IF h[id].parent_ # 0
         THEN HeapFind(h, h[id].parent_, k, D)
         ELSE D.top
    ELSE h[id].env_[k]

\* The const operator[] of AbstractEnvironment.
HeapIndex(h, id, k, D) ==
    IF k \notin DOMAIN h[id].env_ THEN D.top ELSE h[id].env_[k]

\* env[k] = v through the non-const operator[], which binds a missing key to
\* top() first.
HeapAssign(h, id, k, v, D) ==
    [h EXCEPT ![id].env_ = EnvAssign(<<@>>, k, v, D)[1]]

\* AbstractEnvironment::mergeAll.
HeapMergeAll(h, id, v) ==
    [h EXCEPT ![id].env_ =
        [k \in DOMAIN @ |-> ValueMergeWith(@[k], v).value]]

RECURSIVE HeapMergeWith(_, _, _, _)
\* A merge whose receiver, having no parent, takes the parent object of the
\* other environment as its own.
HeapMergeWithShared(h, self, other, D) ==
    LET lres == LocalMergeResult(h[self].env_, h[other].env_, D)
        h1   == [h EXCEPT ![self].env_ =
                    LocalMergeWith(h[self].env_, h[other].env_, D)]
    IN  IF h1[self].parent_ = 0
        THEN IF h1[other].parent_ # 0
             THEN [heap   |-> [h1 EXCEPT ![self].parent_ = h1[other].parent_],
                   result |-> TRUE]
             ELSE [heap |-> h1, result |-> lres]
        ELSE IF h1[other].parent_ # 0
             THEN LET p == HeapMergeWith(h1, h1[self].parent_,
                                         h1[other].parent_, D)
                  IN  [heap |-> p.heap, result |-> p.result \/ lres]
             ELSE [heap |-> h1, result |-> lres]

\* AbstractEnvironment::mergeWith on the objects self and other.
HeapMergeWith(h, self, other, D) ==
    LET lres == LocalMergeResult(h[self].env_, h[other].env_, D)
        h1   == [h EXCEPT ![self].env_ =
                    LocalMergeWith(h[self].env_, h[other].env_, D)]
    IN  IF h1[self].parent_ = 0
        THEN IF h1[other].parent_ # 0
             THEN LET c == HeapClone(h1, h1[other].parent_)
                  IN  [heap   |-> [c.heap EXCEPT ![self].parent_ = c.id],
                       result |-> TRUE]
             ELSE [heap |-> h1, result |-> lres]
        ELSE IF h1[other].parent_ # 0
             THEN LET p == HeapMergeWith(h1, h1[self].parent_,
                                         h1[other].parent_, D)
                  IN  [heap |-> p.heap, result |-> p.result \/ lres]
             ELSE [heap |-> h1, result |-> lres]

\* The scope chains a program starts with.
EnvChains(D) ==
    UNION { [1..n -> { <<>>, [k \in {"x"} |-> 0],
                       [k \in Keys |-> IF k = "x" THEN D.top ELSE 0] }] :
            n \in 1..2 }
    \cup { [i \in 1..MaxChain |->
                IF i = MaxChain \/ all THEN [k \in {"y"} |-> 0] ELSE <<>>] :
            all \in BOOLEAN }

\* The unrelated environment.
ExtraChains(D) ==
    { << [k \in {"y"} |-> D.top], [k \in {"x"} |-> D.top] >> }

\* The value domains of the environments: the longest chain of values, with
\* Absent() at its bottom or at its top.
EnvDomains == { [top |-> MaxTop, absent |-> a] : a \in {0, MaxTop} }

\* The environments held.
Roots == {orig, copy, extra} \ {0}

\* The object n levels up from root r (parent() applied n - 1 times).
Level(r, n) == ChainIds(heap, r)[n]

\* No call made yet.
NoOp ==
    [op |-> "none", root |-> 0, src |-> 0, key |-> "x", value |-> 0,
     before |-> <<>>, other |-> <<>>, result |-> FALSE]

\* copy = orig.clone().
EnvClone ==
    /\ copy = 0
    /\ LET c == HeapClone(heap, orig)
       IN  /\ heap' = c.heap
           /\ copy' = c.id
           /\ lastOp' = [NoOp EXCEPT !.op = "clone", !.root = c.id,
                                     !.src = orig,
                                     !.other = ChainOf(heap, orig)]
    /\ UNCHANGED <<orig, extra, nops, driverVars, dispVars, mergeVars>>

\* r.parent()....parent()[k] = v, on one of the two related environments.
EnvWrite(r, n, k, v) ==
    /\ nops < MaxOps
    /\ r \in {orig, copy} \ {0}
    /\ n \in 1..Len(ChainIds(heap, r))
    /\ heap' = HeapAssign(heap, Level(r, n), k, v, dom)
    /\ lastOp' = [NoOp EXCEPT !.op = "write", !.root = r, !.key = k,
                              !.value = v, !.before = ChainOf(heap, r)]
    /\ nops' = nops + 1
    /\ UNCHANGED <<orig, copy, extra, driverVars, dispVars, mergeVars>>

\* r.parent()....parent().mergeAll(v).
EnvMergeAll(r, n, v) ==
    /\ nops < MaxOps
    /\ r \in {orig, copy} \ {0}
    /\ n \in 1..Len(ChainIds(heap, r))
    /\ heap' = HeapMergeAll(heap, Level(r, n), v)
    /\ lastOp' = [NoOp EXCEPT !.op = "mergeAll", !.root = r, !.value = v,
                              !.before = ChainOf(heap, r)]
    /\ nops' = nops + 1
    /\ UNCHANGED <<orig, copy, extra, driverVars, dispVars, mergeVars>>

\* r.mergeWith(s).
EnvMerge(r, s) ==
    /\ nops < MaxOps
    /\ r \in {orig, copy} \ {0}
    /\ s \in Roots \ {r}
    /\ LET m == HeapMergeWith(heap, r, s, dom)
       IN  /\ heap' = m.heap
           /\ lastOp' = [NoOp EXCEPT !.op = "merge", !.root = r, !.src = s,
                                     !.before = ChainOf(heap, r),
                                     !.other = ChainOf(heap, s),
                                     !.result = m.result]
    /\ nops' = nops + 1
    /\ UNCHANGED <<orig, copy, extra, driverVars, dispVars, mergeVars>>

\* orig.find(k): a const method.
EnvFindCall(k) ==
    /\ lastOp' = [NoOp EXCEPT !.op = "find", !.root = orig, !.key = k,
                              !.value = HeapFind(heap, orig, k, dom),
                              !.before = ChainOf(heap, orig)]
    /\ UNCHANGED <<heap, orig, copy, extra, nops,
                   driverVars, dispVars, mergeVars>>

\* orig[k] on a const environment.
EnvIndexCall(k) ==
    /\ lastOp' = [NoOp EXCEPT !.op = "index", !.root = orig, !.key = k,
                              !.value = HeapIndex(heap, orig, k, dom),
                              !.before = ChainOf(heap, orig)]
    /\ UNCHANGED <<heap, orig, copy, extra, nops,
                   driverVars, dispVars, mergeVars>>

\* The environment objects while others are looked at.
EnvIdle ==
    /\ heap = <<>>
    /\ orig = 0
    /\ copy = 0
    /\ extra = 0
    /\ nops = 0
    /\ lastOp = NoOp

\* The merge component while others are looked at.
MergeIdle ==
    /\ lhs = EmptyState
    /\ rhs = EmptyState
    /\ res = NoMerge

\* The fields of a driver after construction.
DriverFields ==
    /\ code_ = <<>>
    /\ initialState_ = Null
    /\ currentState_ = Null
    /\ finalState_ = Null
    /\ currentIns_ = 0
    /\ mergePoints_ = <<>>
    /\ jumpOrigins_ = <<>>
    /\ q_ = <<>>
    /\ pc = "idle"
    /\ visits = <<>>
    /\ enq = <<>>
    /\ restarted = FALSE
    /\ kind = "none"
    /\ live = 0
    /\ again = FALSE

DriverInit ==
    /\ dom = [top |-> 1, absent |-> 1]
    /\ DriverFields

Init == DriverInit /\ DispIdle /\ MergeIdle /\ EnvIdle

\* A program holding an environment with its scope chain and an unrelated
\* one.
EnvInit ==
    /\ DriverFields /\ DispIdle /\ MergeIdle
    /\ dom \in EnvDomains
    /\ \E c \in EnvChains(dom), x \in ExtraChains(dom) :
          /\ heap = HeapOfChain(c, 0) \o HeapOfChain(x, Len(c))
          /\ orig = 1
          /\ extra = Len(c) + 1
    /\ copy = 0
    /\ nops = 0
    /\ lastOp = NoOp

EnvNext ==
    \/ EnvClone
    \/ \E r \in Roots, n \in 1..MaxChain, k \in Keys :
          EnvWrite(r, n, k, dom.top)
    \/ \E r \in Roots, n \in 1..MaxChain : EnvMergeAll(r, n, dom.top)
    \/ \E r \in Roots, s \in Roots : EnvMerge(r, s)
    \/ \E k \in Keys : EnvFindCall(k)
    \/ \E k \in Keys : EnvIndexCall(k)

SpecEnv == EnvInit /\ [][EnvNext]_vars

\* Two states over one value domain, about to be merged.
MergeInit ==
    /\ DriverFields /\ DispIdle /\ EnvIdle
    /\ dom \in MergeDomains
    /\ lhs \in MergeOperands(dom)
    /\ rhs \in MergeOperands(dom)
    /\ res = NoMerge

MergeNext == MergeStack \/ MergeEnv \/ MergeState \/ MergeAtMergePoint

SpecMerge == MergeInit /\ [][MergeNext]_vars

\* A dispatcher of any class as its construction leaves it: success_ has no
\* initialiser.
DispInit ==
    /\ DriverInit /\ MergeIdle /\ EnvIdle
    /\ dispatcher \in Dispatchers
    /\ success_ \in BOOLEAN
    /\ cursor = 1
    /\ lastCall = NoCall
    /\ ncalls = 0
    /\ prevFailed = FALSE

DispNext == DispatchCall \/ StepCursor

SpecDisp == DispInit /\ [][DispNext]_vars

Next ==
    \/ /\ pc = "idle" /\ kind = "none"
       /\ \E code \in Programs, D \in Domains, s0 \in InitialStates :
             Analyze(code, D, s0)
    \/ /\ kind = "forward"
       /\ \E code \in AgainPrograms, s0 \in InitialStates :
             Analyze(code, dom, s0)
    \/ Pop
    \/ Walk
    \/ Finish
    \/ /\ pc = "ready"
       /\ \E ins \in 1..Len(code_) : StateAt(ins)
    \/ Invalidate

Spec == Init /\ [][Next]_vars

BNext ==
    \/ /\ pc = "idle" /\ kind = "none"
       /\ \E code \in Programs, D \in Domains, s0 \in InitialStates :
             BAnalyze(code, D, s0)
    \/ /\ kind = "backward"
       /\ \E code \in AgainPrograms, s0 \in InitialStates :
             BAnalyze(code, dom, s0)
    \/ BPop
    \/ BWalk
    \/ BFinish
    \/ /\ pc = "ready"
       /\ \E ins \in 1..Len(code_) : BStateAt(ins)
    \/ BInvalidate

SpecB == Init /\ [][BNext]_vars

\* A driver object of either class.
SpecAll == Init /\ [][Next \/ BNext]_vars

\* analyze() alone: it runs to completion once called, its loops keep taking
\* steps.
NextAnalyze ==
    \/ /\ pc = "idle" /\ kind = "none"
       /\ \E code \in Programs, D \in Domains, s0 \in InitialStates :
             Analyze(code, D, s0)
    \/ Pop
    \/ Walk
    \/ Finish

SpecLive == Init /\ [][NextAnalyze]_vars /\ WF_vars(Pop \/ Walk \/ Finish)

(***************************************************************************)
(* Properties of the forward driver.                                       *)
(***************************************************************************)
Analyzing == pc \in {"queue", "walk"}
Fixed == pc = "ready"
s0 == Deref(initialState_)
Snapshot(i) == MapGet(mergePoints_, i)

HasBackJump(code) == \E i \in 1..Len(code) : isJmp(code, i) /\ target(code, i) <= i

\* C1: on every program of the family (jump targets are labels, every
\* straight-line path ends in an exit point or an unconditional jump) and
\* every domain (a finite chain), analyze() terminates: from every point of
\* the worklist loop the driver reaches the end of analyze(), where the
\* worklist is empty and the walk has stopped; no assertion fails on the way.
C1_Terminates == Analyzing ~> (Fixed /\ q_ = <<>>)

\* A loop was analysed to its end and its label was visited three times.
C1_Witness ==
    Fixed /\ HasBackJump(code_) /\ \E l \in DOMAIN visits : visits[l] >= 3

\* The loop of C2: a label, a body that increases one counter and does
\* nothing else, and a jump back to the label.
IsCounterLoop ==
    /\ IsShape(code_, "loop")
    /\ \/ {code_[2].op, code_[3].op} \in {{"ix"}, {"nop", "ix"}}
       \/ {code_[2].op, code_[3].op} \in {{"iy"}, {"nop", "iy"}}

Counter == IF "ix" \in {code_[2].op, code_[3].op} THEN "x" ELSE "y"

SnapshotAtTop(l, k) ==
    /\ Snapshot(l) # Null
    /\ EnvHas(Deref(Snapshot(l)).env, k)
    /\ Deref(Snapshot(l)).env[1][k] = dom.top

\* C2: on the counter loop the driver terminates, and when it has terminated
\* the snapshot stored for the label binds the counter to Top.
C2_LoopReachesTop ==
    (Analyzing /\ IsCounterLoop) ~>
        (Fixed /\ q_ = <<>> /\ SnapshotAtTop(1, Counter))

\* The counter loop was analysed from a state binding the counter to 0 over a
\* domain of height 2, and the label was visited once per value.
C2_Witness ==
    /\ Fixed /\ IsCounterLoop /\ Counter = "x" /\ dom.top = 2
    /\ EnvHas(s0.env, "x") /\ s0.env[1]["x"] = 0
    /\ visits[1] = 3
    /\ SnapshotAtTop(1, "x")

\* C3: on a straight-line program of three instructions ending in the exit
\* point, the final state after analyze() is the state obtained by dispatching
\* the three instructions once each, in program order, from a clone of the
\* initial state.
C3_StraightLine ==
    Fixed /\ IsShape(code_, "line") =>
        finalState_ =
            New(Effect(code_[3].op,
                  Effect(code_[2].op,
                    Effect(code_[1].op, Clone(s0), dom), dom), dom))

\* A straight-line program whose three instructions each change the state.
C3_Witness ==
    /\ Fixed /\ IsShape(code_, "line")
    /\ code_[1].op = "ix" /\ code_[2].op = "cp" /\ code_[3].op = "iy"
    /\ EnvHas(s0.env, "x") /\ dom.top = 2
    /\ finalState_ = New([stack |-> <<>>, env |-> << [x |-> 1, y |-> 2] >>])

(***************************************************************************)
(* Control-flow notions the properties are stated with.                    *)
(***************************************************************************)
\* The successors of i that are locations of the code.
Succ(code, i) == { j \in next(code, i) : InCode(code, j) }
Pred(code, i) == { p \in 1..Len(code) : i \in Succ(code, p) }

RECURSIVE ReachFrom(_, _)
\* The locations reachable from the set S (S included).
ReachFrom(code, S) ==
    LET T == S \cup UNION { Succ(code, i) : i \in S }
    IN  IF T = S THEN S ELSE ReachFrom(code, T)

Reachable(code) == ReachFrom(code, {Begin(code)})

\* No location lies on a cycle of the control-flow graph.
Acyclic(code) ==
    \A i \in 1..Len(code) : i \notin ReachFrom(code, Succ(code, i))

\* No jump goes to its own or an earlier location.
NoBackJump(code) == ~HasBackJump(code)

RECURSIVE NPaths(_, _)
RECURSIVE SumPaths(_, _)
\* The number of control-flow paths from the entry to i (acyclic code).
NPaths(code, i) ==
    (IF i = Begin(code) THEN 1 ELSE 0) + SumPaths(code, Pred(code, i))
SumPaths(code, S) ==
    IF S = {} THEN 0
    ELSE LET p == CHOOSE q \in S : TRUE
         IN  NPaths(code, p) + SumPaths(code, S \ {p})

\* The number of those paths that arrive at l by a jump.
JumpPaths(code, l) ==
    SumPaths(code, { p \in Pred(code, l) : isJmp(code, p) /\ target(code, p) = l })

RECURSIVE Along(_, _, _, _)
\* The state after dispatching the instructions at the locations of path, in
\* that order, from state s.
Along(code, path, s, D) ==
    IF path = <<>> THEN s
    ELSE Along(code, Tail(path), Dispatch(code, Head(path), s, D), D)

\* The diamonds: the two arms from the branch to the join, and the path from
\* the join label to the exit.
IsDiamond == IsShape(code_, "diamond") \/ IsShape(code_, "diamondj")
ArmA == <<1, 2, 3>>
ArmB == IF IsShape(code_, "diamond") THEN <<1, 4, 5>> ELSE <<1, 4, 5, 6>>
JoinToExit == IF IsShape(code_, "diamond") THEN <<6, 7, 8>> ELSE <<7, 8, 9>>
Join == Head(JoinToExit)

\* The driver after a first-in-first-out run of the worklist loop on the
\* program analysed.
Fifo == FwdRun(FwdStart(code_, s0), code_, dom, TRUE)

\* The merge of the states the two arms end with at the join.
JoinState ==
    StateMergeWith(Along(code_, ArmA, Clone(s0), dom),
                   Along(code_, ArmB, Clone(s0), dom), dom).state

\* C4 (as stated): on a diamond the final state is the merge of the states
\* the two whole paths, each computed on its own up to the exit, end with.
C4_PathsMerged ==
    Fixed /\ IsDiamond =>
        finalState_ =
            New(StateMergeWith(
                  Along(code_, ArmA \o JoinToExit, Clone(s0), dom),
                  Along(code_, ArmB \o JoinToExit, Clone(s0), dom), dom).state)

\* C4 (amended): on a diamond the final state is the state obtained by
\* dispatching the instructions from the join to the exit on the merge of the
\* states the two arms end with at the join, and the snapshot of the join is
\* that merge; this is so whichever arm reaches the join first (the
\* first-in-first-out run ends with the same final state).
C4_DiamondJoin ==
    Fixed /\ IsDiamond =>
        /\ Snapshot(Join) = New(JoinState)
        /\ finalState_ = New(Along(code_, JoinToExit, JoinState, dom))
        /\ Fifo.finalState_ = finalState_

\* A diamond whose arms raise different keys and whose join-to-exit path
\* takes their minimum: the merge at the join came before the minimum.
C4_Witness ==
    /\ Fixed /\ IsShape(code_, "diamond")
    /\ code_[2].op = "ix" /\ code_[5].op = "iy" /\ code_[7].op = "mn"
    /\ EnvHas(s0.env, "x") /\ dom.top = 2
    /\ visits[Join] = 2
    /\ finalState_ = New([stack |-> <<>>, env |-> << [x |-> 1, y |-> 1] >>])

\* C5: the merge-point snapshots and the final state the driver ends with are
\* those a first-in-first-out run of the worklist loop ends with.
C5_OrderIndependent ==
    Fixed =>
        /\ finalState_ = Fifo.finalState_
        /\ \A i \in 1..Len(code_) : Snapshot(i) = MapGet(Fifo.mergePoints_, i)

\* A nested loop was analysed; the first-in-first-out run visits its labels a
\* different number of times and ends with the same snapshots.
C5_Witness ==
    /\ Fixed /\ IsShape(code_, "nest")
    /\ Fifo.visits # visits
    /\ Snapshot(1) # Null /\ Snapshot(1) # initialState_
    /\ Snapshot(1) = MapGet(Fifo.mergePoints_, 1)

BackJumps(code) == { i \in 1..Len(code) : isJmp(code, i) /\ target(code, i) <= i }
SingleBackEdge(code) ==
    Cardinality(BackJumps(code)) = 1
        /\ \A i \in BackJumps(code) : isLabel(code, target(code, i))
LoopLabel(code) == target(code, CHOOSE i \in BackJumps(code) : TRUE)

StoredWithin(from, i) ==
    { l \in from..i : isLabel(code_, l) /\ Snapshot(l) # Null }

\* The locations from..to in program order.
Range(from, to) == [k \in 1..(to - from + 1) |-> from + k - 1]

\* The state replayed from the snapshot of the last label in S (from the
\* initial state if S is empty) through the instructions up to last.
ReplayTo(S, last) ==
    IF S = {}
    THEN Along(code_, Range(Begin(code_), last), Clone(s0), dom)
    ELSE LET m == CHOOSE l \in S : \A k \in S : k <= l
         IN  Along(code_, Range(m, last), Clone(Deref(Snapshot(m))), dom)

\* C8 (as stated): the state the forward cache holds for a reachable
\* location, which is the state a query for it returns, is the state replayed
\* from the nearest snapshot stored at or before the location through that
\* location: the state after its instruction.
C8_StateAfter ==
    Fixed /\ currentIns_ \in Reachable(code_) =>
        currentState_ =
            New(ReplayTo(StoredWithin(Begin(code_), currentIns_), currentIns_))

\* What the cache holds instead: the state replayed up to, not through, the
\* location, that is the state before its instruction; and a snapshot stored
\* for the first instruction is never loaded, the replay starts from the
\* initial state there.
C8_StateBefore ==
    Fixed /\ currentIns_ \in Reachable(code_) =>
        currentState_ =
            New(ReplayTo(StoredWithin(Begin(code_) + 1, currentIns_),
                         currentIns_ - 1))

\* The cache of the program analysed as initializeCache leaves it.
FreshCache ==
    [Driver EXCEPT !.currentState_ = New(Clone(s0)),
                   !.currentIns_ = Begin(code_)]

\* C9: whatever queries came before, the state the forward cache holds for
\* its location is the state the first query for that location returns on a
\* cache just initialised.
C9_HistoryFree ==
    Fixed =>
        currentState_ =
            FwdStateAt(FreshCache, code_, currentIns_, s0, dom).currentState_

\* A query that had to start over (it went backward, or past an exit point)
\* returned a state that is not the initial one.
C9_Witness ==
    /\ Fixed /\ restarted
    /\ currentIns_ > Begin(code_)
    /\ \E l \in 1..Len(code_) : l < currentIns_ /\ isExitPoint(code_, l)
    /\ currentState_ # New(s0)

RECURSIVE BwdExpected(_)
\* The state before instruction i as C10 describes it: the effect of i
\* applied once to the state reloaded at i, or carried over from i + 1.
BwdExpected(i) ==
    Dispatch(code_, i,
        IF isExitPoint(code_, i) THEN Clone(s0)
        ELSE IF isMergePoint(code_, i) /\ Snapshot(i) # Null
        THEN Clone(Deref(Snapshot(i)))
        ELSE IF i = RBegin(code_) THEN Clone(s0)
        ELSE BwdExpected(i + 1),
        dom)

\* C10 (as stated): the state the backward cache holds for its location is
\* the effect of that instruction applied once to the state reloaded there
\* (initial state at an exit point, snapshot at a jump that has one) or
\* carried over from the following location.
C10_StateBefore ==
    Fixed => currentState_ = New(BwdExpected(currentIns_))

RECURSIVE BwdCached(_)
\* The same, except that the last instruction always starts from the initial
\* state: its snapshot is not reloaded.
BwdCached(i) ==
    Dispatch(code_, i,
        IF isExitPoint(code_, i) \/ i = RBegin(code_) THEN Clone(s0)
        ELSE IF isMergePoint(code_, i) /\ Snapshot(i) # Null
        THEN Clone(Deref(Snapshot(i)))
        ELSE BwdCached(i + 1),
        dom)

\* What the backward cache holds instead for its location.
C10_LastFromInitial ==
    Fixed => currentState_ = New(BwdCached(currentIns_))

(***************************************************************************)
(* Properties of the lifecycle of a driver.                                *)
(***************************************************************************)
\* The jump origins a driver constructed for the program analysed records.
FreshOrigins ==
    IF kind = "backward"
    THEN PrePass(code_, Begin(code_),
                 [jumpOrigins_ |-> <<>>, q_ |-> <<>>]).jumpOrigins_
    ELSE <<>>

\* The driver a freshly constructed one becomes by analysing the program
\* analysed, when its worklist loop has ended.
Fresh ==
    IF kind = "forward"
    THEN FwdRun(FwdStart(code_, s0), code_, dom, FALSE)
    ELSE BwdRun(BwdStart(code_), code_, FreshOrigins, s0, dom)

\* The state a first query for location ins returns on the cache of a fresh
\* driver.
FreshStateAt(ins) ==
    IF kind = "forward"
    THEN FwdStateAt(FwdInitializeCache(Fresh, code_, s0),
                    code_, ins, s0, dom).currentState_
    ELSE BwdStateAt(BwdInitializeCache(Fresh, code_, s0, dom),
                    code_, ins, s0, dom).d.currentState_

\* C11: whatever a driver did before its last analyze() (other analyses,
\* invalidations, queries), when that has returned the final state, the snapshot of
\* every location, the jump origins and the state the cache returns are those
\* of a freshly constructed driver that analysed the same code, and the
\* worklist is empty.
C11_AsFresh ==
    Fixed /\ again =>
        /\ finalState_ = Fresh.finalState_
        /\ \A i \in 1..Len(code_) :
              /\ Snapshot(i) = MapGet(Fresh.mergePoints_, i)
              /\ MapGet(jumpOrigins_, i) = MapGet(FreshOrigins, i)
        /\ DOMAIN mergePoints_ \subseteq 1..Len(code_)
        /\ DOMAIN jumpOrigins_ \subseteq 1..Len(code_)
        /\ q_ = <<>>
        /\ currentState_ = FreshStateAt(currentIns_)

\* A backward driver that had been used before analysed a program with jumps.
C11_Witness ==
    /\ Fixed /\ again /\ kind = "backward"
    /\ IsShape(code_, "tail")
    /\ MapGet(jumpOrigins_, 3) = <<8>>
    /\ Snapshot(8) # Null
    /\ finalState_ # Null

\* Analysis::good.
good == code_ # <<>>

\* The driver as invalidate() would leave it, called now.
Invalidated ==
    IF kind = "backward"
    THEN BwdInvalidate(Driver, initialState_)
    ELSE FwdInvalidate(Driver, initialState_)

\* C12: a driver that is new or was invalidated, in whatever lifecycle state
\* and however often, has no code bound (good() is false), no current,
\* initial or final state, no snapshot and no state left to free, and another
\* invalidate() would change and free nothing; good() is false on a new
\* driver and true when analyze() has returned.
C12_Invalidated ==
    /\ pc = "idle" =>
          /\ ~good
          /\ currentState_ = Null /\ initialState_ = Null /\ finalState_ = Null
          /\ mergePoints_ = <<>>
          /\ live = 0
          /\ Invalidated = Driver
          /\ kind = "backward" => BwdInvalidateOrigins(jumpOrigins_) = jumpOrigins_
    /\ kind = "none" => pc = "idle"
    /\ Fixed => good

\* A forward driver that has analysed a program and was then invalidated.
C12_Witness ==
    /\ pc = "idle" /\ kind = "forward"
    /\ ~good /\ finalState_ = Null /\ mergePoints_ = <<>>

\* C13: whenever analyze() has returned there is a final state object.
C13_FinalExists == Fixed => finalState_ # Null

\* What holds instead: the forward final state exists exactly when an exit
\* point is reachable from the entry.
C13_FinalIffExitReached ==
    Fixed /\ kind = "forward" =>
        (finalState_ # Null <=>
            \E i \in Reachable(code_) : isExitPoint(code_, i))

(***************************************************************************)
(* Ownership.  live counts the State objects allocated (new, clone) and    *)
(* not yet deleted; Held counts the pointers of the driver that are not    *)
(* null.  Were one object held by two pointers Held would exceed live;     *)
(* were an object dropped without delete live would exceed Held; were one  *)
(* deleted twice live would fall below Held.                               *)
(***************************************************************************)
Held ==
    Owned(currentState_) + Owned(initialState_) + Owned(finalState_)
        + OwnedIn(mergePoints_)

C15_ReturnsNotFailed ==
    ncalls > 0 /\ ~lastCall.dead => (lastCall.ret <=> ~lastCall.failed)

\* A dispatch that failed was followed by one that did not and returned true.
C15_Witness ==
    /\ ncalls >= 2 /\ prevFailed
    /\ ~lastCall.failed /\ lastCall.ret /\ ~lastCall.dead

\* C16: a call of dispatch() runs doDispatch exactly once and leaves the
\* caller's cursor where it was, for direct subclasses of Dispatcher and for
\* the instruction dispatcher.
C16_CursorKept ==
    [][ncalls' # ncalls => /\ cursor' = cursor
                           /\ lastCall'.at = cursor
                           /\ lastCall'.ndo = 1]_vars

\* A dispatcher that stepped its own copy of the cursor was called; the
\* caller's cursor is where it was.
C16_Witness ==
    /\ ncalls > 0 /\ dispatcher.class = "user" /\ dispatcher.steps
    /\ lastCall.at = cursor /\ lastCall.ins = cursor + 1
    /\ lastCall.ndo = 1

\* The opcodes doDispatch has a case for.
Known == Opcodes \cup {"label"}

\* C17: for an instruction of a known opcode the instruction dispatcher calls
\* one receiver method, the one named after the opcode; if the receiver
\* overrides it only the override runs, if not the default runs any() once;
\* the dispatch returns true unless a receiver method called fail().
C17_OneMethod ==
    ncalls > 0 /\ dispatcher.class = "instruction" /\ DispCode[lastCall.at] \in Known =>
        LET m == DispCode[lastCall.at]
        IN  /\ ~lastCall.dead
            /\ lastCall.called = <<m>>
            /\ m \in DOMAIN dispatcher.receiver => lastCall.ran = <<m>>
            /\ m \notin DOMAIN dispatcher.receiver => lastCall.ran = <<m, "any">>
            /\ lastCall.ret <=> ~lastCall.failed

\* GuardFunReceiver of the tests (it overrides any and guard_fun_) was
\* dispatched on a guard_fun_ instruction: only the override ran.
C17_Witness ==
    /\ ncalls > 0 /\ dispatcher.class = "instruction"
    /\ DOMAIN dispatcher.receiver = {"any", "guard_fun_"}
    /\ DispCode[lastCall.at] = "guard_fun_"
    /\ lastCall.ran = <<"guard_fun_">> /\ lastCall.ret

(***************************************************************************)
(* Properties of the merges.                                               *)
(***************************************************************************)
\* C18: a merge of two stacks of equal depth leaves the receiver with its
\* depth and, at every index, with its value merged with the argument's
\* value at that index, and it returns true exactly if some slot of the
\* receiver changed.
C18_AllSlotsMerged ==
    res.op = "stack" /\ Len(res.before.stack) = Len(res.other.stack) =>
        LET A == res.before.stack
            B == res.other.stack
        IN  /\ res.ok
            /\ Len(lhs.stack) = Len(A)
            /\ \A i \in 1..Len(A) :
                  lhs.stack[i] = ValueMergeWith(A[i], B[i]).value
            /\ res.result <=> \E i \in 1..Len(A) : lhs.stack[i] # A[i]
            /\ rhs = res.other

\* Two stacks of depth two were merged: both slots of the receiver changed.
C18_Witness ==
    /\ res.op = "stack" /\ res.ok /\ res.result
    /\ Len(res.before.stack) = 2
    /\ \A i \in 1..2 : lhs.stack[i] # res.before.stack[i]

\* C19: a merge of two stacks of unequal depth, on its own or as part of the
\* merge of two states, fails its assertion with both operands as they were;
\* a driver that merges such states at a merge point aborts.
C19_UnequalDepthFatal ==
    /\ res.op \in {"stack", "state", "label"}
    /\ Len(res.before.stack) # Len(res.other.stack)
    => /\ ~res.ok
       /\ lhs = res.before
       /\ rhs = res.other
       /\ res.op = "label" => res.pc = "abort"

\* A driver arrived at a merge point holding a state with a stack deeper
\* than the snapshot's, and the environments would have merged with a change.
C19_Witness ==
    /\ res.op = "label" /\ res.pc = "abort"
    /\ Len(res.before.stack) < Len(res.other.stack)
    /\ EnvMergeWith(res.before.env, res.other.env, dom).result

\* C20: merging environment B into A yields the environment merging A into
\* B yields: the same keys with the same values at every level of the chain.
C20_Commutative ==
    res.op = "env" =>
        lhs.env = EnvMergeWith(res.other.env, res.before.env, dom).env

\* Two environments with parents that bind different keys, locally and in
\* the parents, were merged, and the receiver changed.
C20_Witness ==
    /\ res.op = "env" /\ res.result
    /\ Len(res.before.env) = 2 /\ Len(res.other.env) = 2
    /\ DOMAIN res.before.env[1] # DOMAIN res.other.env[1]
    /\ DOMAIN res.before.env[2] # DOMAIN res.other.env[2]
    /\ lhs.env[1] # res.before.env[1] /\ lhs.env[2] # res.before.env[2]

\* C21: after a merge of two environments a key only the argument bound
\* locally is bound in the receiver to the argument's value merged with
\* Absent() and the merge returned true; a key only the receiver bound has
\* Absent() merged into its value; either way Absent() was merged once.
C21_OneSidedKeys ==
    res.op = "env" =>
        LET A == res.before.env[1]
            B == res.other.env[1]
        IN  /\ \A k \in DOMAIN B \ DOMAIN A :
                  /\ k \in DOMAIN lhs.env[1]
                  /\ lhs.env[1][k] = ValueMergeWith(B[k], dom.absent).value
                  /\ res.result
                  /\ LocalAbsentMerges(A, B, k) = 1
            /\ \A k \in DOMAIN A \ DOMAIN B :
                  /\ lhs.env[1][k] = ValueMergeWith(A[k], dom.absent).value
                  /\ LocalAbsentMerges(A, B, k) = 1
            /\ \A k \in DOMAIN A \cap DOMAIN B : LocalAbsentMerges(A, B, k) = 0
            /\ DOMAIN lhs.env[1] = DOMAIN A \cup DOMAIN B

\* The receiver bound only x, the argument only y, both to the bottom value,
\* and Absent() is the top value: both keys are bound to top after the merge.
C21_Witness ==
    /\ res.op = "env"
    /\ dom.absent = dom.top
    /\ res.before.env[1] = [k \in {"x"} |-> 0]
    /\ res.other.env[1] = [k \in {"y"} |-> 0]
    /\ lhs.env[1] = [k \in {"x", "y"} |-> dom.top]

(***************************************************************************)
(* Properties of the environments.                                         *)
(***************************************************************************)
\* The value the nearest map of a chain binds k to, top() if none does.
Nearest(chain, k, D) ==
    LET S == { i \in 1..Len(chain) : k \in DOMAIN chain[i] }
    IN  IF S = {} THEN D.top
        ELSE chain[CHOOSE i \in S : \A j \in S : i <= j][k]

\* C22: find(key) returns the value the nearest environment of the scope
\* chain binds the key to, top() if none binds it, and the chain is as it
\* was before the call.
C22_FindNearest ==
    lastOp.op = "find" =>
        /\ lastOp.value = Nearest(lastOp.before, lastOp.key, dom)
        /\ ChainOf(heap, orig) = lastOp.before

\* A key that only the parent of the parent binds was found there.
C22_Witness ==
    /\ lastOp.op = "find"
    /\ Len(lastOp.before) = 3
    /\ lastOp.key \notin DOMAIN lastOp.before[1]
    /\ lastOp.key \notin DOMAIN lastOp.before[2]
    /\ lastOp.key \in DOMAIN lastOp.before[3]
    /\ lastOp.value # dom.top

\* The objects of the scope chain of root r.
Cells(r) == { ChainIds(heap, r)[i] : i \in 1..Len(ChainIds(heap, r)) }

C25_IndexIsFind ==
    lastOp.op = "index" =>
        lastOp.value = HeapFind(heap, orig, lastOp.key, dom)

\* What holds instead: the read-only operator[] returns the value the
\* environment itself binds the key to, top() if it does not bind it,
\* whatever its parents bind.
C25_IndexIsLocal ==
    lastOp.op = "index" =>
        lastOp.value = Nearest(<<lastOp.before[1]>>, lastOp.key, dom)

(***************************************************************************)
(* C26                                                                     *)
(***************************************************************************)
\* The domain order on states: slot by slot on the stack, binding by binding
\* on every level of the environment.
StateLeq(a, b) ==
    /\ Len(a.stack) = Len(b.stack)
    /\ \A i \in 1..Len(a.stack) : a.stack[i] <= b.stack[i]
    /\ Len(a.env) <= Len(b.env)
    /\ \A n \in 1..Len(a.env) :
          /\ DOMAIN a.env[n] \subseteq DOMAIN b.env[n]
          /\ \A k \in DOMAIN a.env[n] : a.env[n][k] <= b.env[n][k]

\* The state a step of the walk brings to location i: the current state if
\* the walk stands at i, the current state after the dispatch of the current
\* instruction if i is reached from it by a jump (forward: its target,
\* backward: one of its origins).
Arriving(i) ==
    IF i = currentIns_ THEN currentState_
    ELSE New(Dispatch(code_, currentIns_, Deref(currentState_), dom))

\* A step that is neither invalidate() nor the start of an analysis.
KeepsSnapshots ==
    /\ pc \in {"queue", "walk", "ready"}
    /\ pc' \in {"queue", "walk", "ready", "abort"}
    /\ ~(pc = "ready" /\ pc' = "queue")

\* The locations that had been decided on by a jump, or arrived at, before.
Met(i) ==
    \/ visits[i] > 0
    \/ enq[i] > (IF kind = "forward" /\ i = Begin(code_) THEN 1 ELSE 0)

\* C26: in both drivers, in every step before invalidate(), a snapshot that
\* exists stays and does not shrink in the domain order; it changes only in
\* a step of the walk and then becomes the merge of the state the walk
\* brings into it; a snapshot is created only in a step of the walk, for a
\* location never arrived at nor decided on before, as a clone of the state
\* the walk brings there; the retrieval phase changes no snapshot.
C26_SnapshotsGrow ==
    [][ KeepsSnapshots =>
          \A i \in 1..Len(code_) :
            LET old == MapGet(mergePoints_, i)
                new == MapGet(mergePoints_', i)
            IN  /\ old # Null =>
                      /\ new # Null
                      /\ StateLeq(Deref(old), Deref(new))
                /\ (old # Null /\ new # old) =>
                      /\ pc = "walk"
                      /\ Arriving(i) # Null
                      /\ new = New(StateMergeWith(Deref(old),
                                     Deref(Arriving(i)), dom).state)
                /\ (old = Null /\ new # Null) =>
                      /\ pc = "walk"
                      /\ ~Met(i)
                      /\ Arriving(i) # Null
                      /\ new = New(Clone(Deref(Arriving(i))))
                /\ pc = "ready" => new = old ]_vars

\* C26 witness: the analysis has ended and a query has been served, with a
\* snapshot that was merged into after it was made (its location was pushed
\* again because a merge changed it).
C26_Witness ==
    /\ pc = "ready"
    /\ restarted
    /\ \E i \in DOMAIN mergePoints_ :
          /\ mergePoints_[i] # Null
          /\ enq[i] >= 2
          /\ visits[i] >= 2

(***************************************************************************)
(* C27                                                                     *)
(***************************************************************************)
\* The worklist q is the worklist p with some locations put in front of it.
PushedOnto(p, q) ==
    /\ Len(q) >= Len(p)
    /\ SubSeq(q, Len(q) - Len(p) + 1, Len(q)) = p

\* The locations of the worklist q that are not of the older worklist p.
Pushed(p, q) == SubSeq(q, 1, Len(q) - Len(p))

\* C27: the worklist is a stack.  Every step of analyze that is not a pop
\* leaves the pending locations in place and puts the ones it enqueues in
\* front of them, so that the worklist is ordered from the most recently
\* enqueued location to the oldest; every pop takes the front location.  The
\* pre-pass of the backward driver enqueues the exit points in program
\* order, which leaves the last exit point of the program at the front.
C27_Stack ==
    [][ /\ (pc = "queue" /\ pc' = "walk") =>
              /\ q_ # <<>>
              /\ currentIns_' = Head(q_)
              /\ q_' = Tail(q_)
        /\ (pc = "walk" /\ pc' \in {"walk", "queue"}) =>
              PushedOnto(q_, q_')
        /\ (pc \in {"idle", "ready"} /\ pc' = "queue" /\ kind' = "backward") =>
              LET new == Pushed(q_, q_')
                  exits == { i \in 1..Len(code_') : isExitPoint(code_', i) }
              IN  /\ PushedOnto(q_, q_')
                  /\ Len(new) = Cardinality(exits)
                  /\ \A j \in 1..Len(new) : new[j] \in exits
                  /\ \A j, k \in 1..Len(new) : j < k => new[j] > new[k] ]_vars

\* C27 witness: the backward driver walks from the last exit point of the
\* program, taken from the worklist first, while the exit points before it
\* are pending.
C27_Witness ==
    /\ pc = "walk"
    /\ kind = "backward"
    /\ q_ # <<>>
    /\ isExitPoint(code_, currentIns_)
    /\ currentState_ = Null
    /\ \A j \in 1..Len(q_) :
          isExitPoint(code_, q_[j]) /\ q_[j] < currentIns_

(***************************************************************************)
(* C28                                                                     *)
(***************************************************************************)
\* A step of the forward driver that takes a location from the worklist.
FwdPops == kind = "forward" /\ pc = "queue" /\ pc' = "walk"

\* Nothing has been pushed on the worklist but the first instruction: the
\* pop to come is the first of this analysis.
FirstPop ==
    \A i \in 1..Len(code_) :
        visits[i] = 0 /\ enq[i] = (IF i = Begin(code_) THEN 1 ELSE 0)

\* C28 as stated: at every pop of the forward driver the walk starts with a
\* current state that is a clone of the initial state.
C28_FromInitial ==
    [][ FwdPops =>
          /\ currentState_' # Null
          /\ currentState_' = New(Clone(Deref(initialState_))) ]_vars

\* C28 as the driver does it: a pop does not touch the current state.  The
\* first pop of an analysis takes the first instruction and finds the clone
\* of the initial state made before the worklist loop; every later pop finds
\* no current state and takes a label that has a snapshot.
C28_FromInitialOnce ==
    [][ FwdPops =>
          /\ currentState_' = currentState_
          /\ IF FirstPop
             THEN /\ currentIns_' = Begin(code_)
                  /\ currentState_ = New(Clone(Deref(initialState_)))
             ELSE /\ currentState_ = Null
                  /\ isLabel(code_, currentIns_')
                  /\ MapGet(mergePoints_, currentIns_') # Null ]_vars

\* C28 witness: the forward driver has taken a location from the worklist
\* after the first one and is about to walk from it, without current state.
C28_Witness ==
    /\ kind = "forward"
    /\ pc = "walk"
    /\ ~FirstPop
    /\ currentState_ = Null
    /\ isLabel(code_, currentIns_)
    /\ MapGet(mergePoints_, currentIns_) # Null
    /\ Deref(MapGet(mergePoints_, currentIns_)) # Clone(Deref(initialState_))

(***************************************************************************)
(* C29                                                                     *)
(***************************************************************************)
\* A step of the forward walk.
FwdWalks == kind = "forward" /\ pc = "walk"

\* The walk goes on from instruction i with state s: i is dispatched on s
\* and, i being neither jump nor exit point, the next instruction is current.
GoesOnWith(i, s) ==
    /\ pc' = "walk"
    /\ currentIns_' = i + 1
    /\ currentState_' = New(Dispatch(code_, i, s, dom))

\* C29: a step of the forward walk at a label that has a snapshot.  Without
\* current state the walk goes on with a clone of the snapshot, which stays
\* as it is; if merging the current state changes the snapshot, the walk
\* goes on with a clone of the merged snapshot; if the merge changes nothing
\* the current state is gone and the branch has ended with the label as
\* current instruction, nothing enqueued, no snapshot and no final state
\* changed.
C29_AtLabel ==
    [][ (FwdWalks /\ isLabel(code_, currentIns_)
                  /\ MapGet(mergePoints_, currentIns_) # Null) =>
          LET i == currentIns_
              stored == Deref(MapGet(mergePoints_, i))
          IN  IF currentState_ = Null
              THEN /\ GoesOnWith(i, Clone(stored))
                   /\ mergePoints_' = mergePoints_
                   /\ q_' = q_
              ELSE LET m == StateMergeWith(stored, Deref(currentState_), dom)
                   IN  /\ m.ok
                       /\ IF m.result
                          THEN /\ GoesOnWith(i, Clone(m.state))
                               /\ mergePoints_' =
                                     MapPut(mergePoints_, i, New(m.state))
                               /\ m.state # stored
                               /\ q_' = q_
                          ELSE /\ pc' = "queue"
                               /\ currentState_' = Null
                               /\ currentIns_' = i
                               /\ q_' = q_
                               /\ enq' = enq
                               /\ mergePoints_' = mergePoints_
                               /\ finalState_' = finalState_ ]_vars

\* C29 witness: a branch of the forward walk has ended at a label it came to
\* with a state that changed nothing in the label's snapshot.
C29_Witness ==
    /\ kind = "forward"
    /\ pc = "queue"
    /\ isLabel(code_, currentIns_)
    /\ currentState_ = Null
    /\ visits[currentIns_] >= 2
    /\ MapGet(mergePoints_, currentIns_) # Null

(***************************************************************************)
(* C30                                                                     *)
(***************************************************************************)
\* C30: a step of the forward walk at a jump.  With cur the current state
\* after the dispatch of the jump: the target is put on the front of the
\* worklist, once, if it had no snapshot or if merging cur into its snapshot
\* changed the snapshot, and the worklist is left alone otherwise; a target
\* without snapshot gets a clone of cur as its snapshot; after an
\* unconditional jump there is no current state and the branch has ended,
\* after a conditional jump the walk is at the next instruction with cur.
C30_AtJump ==
    [][ (FwdWalks /\ isJmp(code_, currentIns_)) =>
          LET i == currentIns_
              l == target(code_, i)
              cur == Dispatch(code_, i, Deref(currentState_), dom)
              stored == MapGet(mergePoints_, l)
              m == StateMergeWith(Deref(stored), cur, dom)
              taken == stored = Null \/ m.result
          IN  /\ currentState_ # Null
              /\ q_' = IF taken THEN <<l>> \o q_ ELSE q_
              /\ enq' = IF taken THEN Bump(enq, l) ELSE enq
              /\ MapGet(mergePoints_', l) =
                    IF stored = Null THEN New(Clone(cur)) ELSE New(m.state)
              /\ IF isUncondJmp(code_, i)
                 THEN currentState_' = Null /\ pc' = "queue"
                 ELSE /\ pc' = "walk"
                      /\ currentIns_' = i + 1
                      /\ currentState_' = New(cur) ]_vars

\* C30 witness: the forward walk has gone past a conditional jump whose
\* target had a snapshot that the merge did not change: the walk is at the
\* next instruction and the target is not pending.
C30_Witness ==
    /\ kind = "forward"
    /\ pc = "walk"
    /\ currentIns_ > 1
    /\ ~isLabel(code_, currentIns_)
    /\ isJmp(code_, currentIns_ - 1)
    /\ ~isUncondJmp(code_, currentIns_ - 1)
    /\ currentState_ # Null
    /\ MapGet(mergePoints_, target(code_, currentIns_ - 1)) # Null
    /\ \A j \in 1..Len(q_) : q_[j] # target(code_, currentIns_ - 1)

(***************************************************************************)
(* C31                                                                     *)
(***************************************************************************)
\* C31: in the forward driver the final state is built from the arrivals at
\* exit points and from nothing else.  A step of the walk at an exit point
\* dispatches the exit instruction; the state it then holds becomes the
\* final state if there was none, and is merged into the final state
\* otherwise; the branch ends there without current state.  No other step
\* of analyze and no query changes the final state.
C31_FinalIsJoin ==
    [][ (kind = "forward" /\ KeepsSnapshots) =>
          IF pc = "walk" /\ isExitPoint(code_, currentIns_)
          THEN LET cur == Dispatch(code_, currentIns_,
                                   Deref(currentState_), dom)
               IN  /\ currentState_ # Null
                   /\ finalState_' =
                         IF finalState_ = Null THEN New(cur)
                         ELSE New(StateMergeWith(Deref(finalState_),
                                                 cur, dom).state)
                   /\ currentState_' = Null
                   /\ pc' = "queue"
                   /\ q_' = q_
          ELSE finalState_' = finalState_ ]_vars

\* C31 witness: the forward analysis of the program with two exit points
\* has ended, and its final state is the merge of the two states the walk
\* arrived with at the exits, equal to neither of them.
C31_Witness ==
    /\ kind = "forward"
    /\ Fixed
    /\ IsShape(code_, "exits")
    /\ finalState_ # Null
    /\ LET A == Along(code_, <<1, 2, 3>>, Clone(s0), dom)
           B == Along(code_, <<1, 4, 5, 6>>, Clone(s0), dom)
       IN  /\ Deref(finalState_) = StateMergeWith(A, B, dom).state
           /\ Deref(finalState_) # A
           /\ Deref(finalState_) # B

(***************************************************************************)
(* C32                                                                     *)
(***************************************************************************)
\* The state the forward walk is about to dispatch the current instruction
\* on: at a label the state the label handling leaves, nullptr if the
\* branch ends there or the walk aborts.
Arrival ==
    LET a == IF isLabel(code_, currentIns_)
             THEN AtMergePoint(Driver, currentIns_, dom)
             ELSE Driver
    IN  IF a.pc = "walk" THEN a.currentState_ ELSE Null

\* The forward driver at the end of the analysis under way, its cache
\* initialised.
FwdFixpoint ==
    FwdInitializeCache(FwdRun(Driver, code_, dom, FALSE), code_, s0)

\* The state the retrieval returns for location i once the analysis under
\* way has ended.
FwdRetrieved(i) == FwdStateAt(FwdFixpoint, code_, i, s0, dom)

\* Merging state x into state y changes nothing: y is an upper bound of x.
Bounds(y, x) ==
    LET m == StateMergeWith(y, x, dom) IN m.ok /\ ~m.result

\* C32 as stated: whenever the forward walk is about to dispatch a location,
\* the state the retrieval returns for that location after the fixpoint is
\* an upper bound of the state the walk holds.
C32_Sound ==
    (kind = "forward" /\ pc = "walk" /\ Arrival # Null) =>
        LET r == FwdRetrieved(currentIns_)
        IN  /\ r.pc # "abort"
            /\ Bounds(Deref(r.currentState_), Deref(Arrival))

\* What holds instead: the bound holds on the programs whose first
\* instruction is not the target of a jump.  For a first instruction that
\* is a label the retrieval starts from the initial state and never loads
\* the label's snapshot.
C32_SoundEntryNoTarget ==
    (kind = "forward" /\ pc = "walk" /\ Arrival # Null
        /\ \A j \in 1..Len(code_) :
              isJmp(code_, j) => target(code_, j) # Begin(code_)) =>
        LET r == FwdRetrieved(currentIns_)
        IN  /\ r.pc # "abort"
            /\ Bounds(Deref(r.currentState_), Deref(Arrival))

(***************************************************************************)
(* C33                                                                     *)
(***************************************************************************)
\* The current instruction is one at which the walk first deals with a
\* snapshot: a label for the forward driver, a jump that is no exit point
\* for the backward driver.
AtSnapshot ==
    IF kind = "forward" THEN isLabel(code_, currentIns_)
    ELSE ~isExitPoint(code_, currentIns_) /\ isMergePoint(code_, currentIns_)

\* C33: in both drivers, in every iteration of the walk: at an instruction
\* with snapshot handling that has no snapshot yet there is a current state
\* (the assertion holds); at an instruction without snapshot handling, other
\* than a backward exit point, there is a current state to dispatch on; the
\* iteration does not end in a failed assertion unless it is the backward
\* walk at an exit point; and a walk that goes on holds a current state.
\* Every pop of the forward driver after the first takes a label that has a
\* snapshot, with no current state; every pop of the backward driver takes
\* an exit point or a jump that has a snapshot.
C33_LiveAtDispatch ==
    [][ /\ (pc = "walk" /\ kind \in {"forward", "backward"}) =>
              /\ (AtSnapshot /\ Snapshot(currentIns_) = Null) =>
                    currentState_ # Null
              /\ (~AtSnapshot /\ ~(kind = "backward"
                                      /\ isExitPoint(code_, currentIns_))) =>
                    currentState_ # Null
              /\ ~(kind = "backward" /\ isExitPoint(code_, currentIns_)) =>
                    pc' # "abort"
              /\ pc' = "walk" => currentState_' # Null
        /\ (FwdPops /\ ~FirstPop) =>
              /\ isLabel(code_, currentIns_')
              /\ Snapshot(currentIns_') # Null
              /\ currentState_' = Null
        /\ (kind = "backward" /\ pc = "queue" /\ pc' = "walk") =>
              \/ isExitPoint(code_, currentIns_')
              \/ /\ isJmp(code_, currentIns_')
                 /\ Snapshot(currentIns_') # Null ]_vars

\* C33 witness: the backward driver has taken from the worklist a jump that
\* has a snapshot and is about to walk from it, without current state.
C33_Witness ==
    /\ kind = "backward"
    /\ pc = "walk"
    /\ isJmp(code_, currentIns_)
    /\ currentState_ = Null
    /\ Snapshot(currentIns_) # Null
    /\ enq[currentIns_] >= 1

(***************************************************************************)
(* C34                                                                     *)
(***************************************************************************)
\* The backward analyze() alone: it runs to completion once called, its
\* loops keep taking steps.
NextBAnalyze ==
    \/ /\ pc = "idle" /\ kind = "none"
       /\ \E code \in Programs, D \in Domains, init \in InitialStates :
             BAnalyze(code, D, init)
    \/ BPop
    \/ BWalk
    \/ BFinish

SpecBLive ==
    Init /\ [][NextBAnalyze]_vars /\ WF_vars(BPop \/ BWalk \/ BFinish)

\* An exit point is followed in program order by an instruction that is not
\* a label.
FallsIntoExit(code) ==
    \E i \in 1..(Len(code) - 1) : isExitPoint(code, i) /\ ~isLabel(code, i + 1)

\* C34 as stated: on every program (jump targets are labels, the first
\* instruction is the entry point) and every domain (a finite chain) the
\* backward analyze() terminates: from every point of its worklist loop the
\* driver reaches the end of analyze(), with the worklist empty.
C34_BwdTerminates ==
    (kind = "backward" /\ Analyzing) ~> (Fixed /\ q_ = <<>>)

\* What holds instead: the backward analyze() terminates on the programs in
\* which every exit point is the last instruction or is followed by a label.
C34_BwdTerminatesNoFall ==
    (kind = "backward" /\ Analyzing /\ ~FallsIntoExit(code_))
        ~> (Fixed /\ q_ = <<>>)

(***************************************************************************)
(* C35                                                                     *)
(***************************************************************************)
\* An iteration of the backward walk at an exit point.
BwdAtExit == kind = "backward" /\ pc = "walk" /\ isExitPoint(code_, currentIns_)

\* The exit-point case went well: there was no current state, no assertion
\* failed, and the exit instruction was dispatched on a clone of the initial
\* state.
ExitFresh ==
    /\ currentState_ = Null
    /\ pc' # "abort"
    /\ currentState_' \in
          {Null, New(Dispatch(code_, currentIns_, Clone(s0), dom))}
    /\ currentState_' = Null => isEntryPoint(code_, currentIns_)

\* C35 as stated: on every program, every iteration of the backward walk at
\* an exit point finds no current state and goes on from a clone of the
\* initial state.
C35_ExitFresh == [][ BwdAtExit => ExitFresh ]_vars

\* What holds instead: the same on the programs in which every exit point is
\* the last instruction or is followed by a label.
C35_ExitFreshNoFall ==
    [][ (BwdAtExit /\ ~FallsIntoExit(code_)) => ExitFresh ]_vars

(***************************************************************************)
(* C36                                                                     *)
(***************************************************************************)
\* The instruction before location i in program order flows into i.
FlowsInto(i) ==
    ~isExitPoint(code_, i - 1) /\ i \in next(code_, i - 1)

\* C36: an iteration of the backward walk at a label that is not the entry
\* point dispatches the label; it then steps to the previous instruction
\* with the state it holds if that instruction flows into the label, and
\* otherwise ends the branch at the label without current state.
C36_LabelFallThrough ==
    [][ (kind = "backward" /\ pc = "walk" /\ isLabel(code_, currentIns_)
            /\ ~isEntryPoint(code_, currentIns_)) =>
          LET i == currentIns_
          IN  /\ currentState_ # Null
              /\ IF FlowsInto(i)
                 THEN /\ pc' = "walk"
                      /\ currentIns_' = i - 1
                      /\ currentState_' =
                            New(Dispatch(code_, i, Deref(currentState_), dom))
                 ELSE /\ pc' = "queue"
                      /\ currentIns_' = i
                      /\ currentState_' = Null ]_vars

\* C36 witness: a branch of the backward walk has ended at a label whose
\* previous instruction does not flow into it.
C36_Witness ==
    /\ kind = "backward"
    /\ pc = "queue"
    /\ isLabel(code_, currentIns_)
    /\ ~isEntryPoint(code_, currentIns_)
    /\ ~FlowsInto(currentIns_)
    /\ currentState_ = Null

(***************************************************************************)
(* C37                                                                     *)
(***************************************************************************)
\* The backward driver at the end of the analysis under way.
BwdFixpoint == BwdRun(Driver, code_, jumpOrigins_, s0, dom)

\* The backward walk is at a label, holding a state.
BwdAtLabel ==
    /\ kind = "backward" /\ pc = "walk"
    /\ isLabel(code_, currentIns_) /\ currentState_ # Null

\* At the fixpoint every jump to the label the walk is at has a snapshot
\* that is an upper bound of the state the walk holds after dispatching the
\* label.
OriginsBound ==
    LET fin == BwdFixpoint
        X == Dispatch(code_, currentIns_, Deref(currentState_), dom)
    IN  fin.pc # "abort" =>
          \A j \in 1..Len(code_) :
             (isJmp(code_, j) /\ target(code_, j) = currentIns_) =>
                /\ MapGet(fin.mergePoints_, j) # Null
                /\ Bounds(Deref(MapGet(fin.mergePoints_, j)), X)

\* C37 as stated: whenever the backward walk dispatches a label, the entry
\* point included, the snapshots that the jumps to the label hold after the
\* fixpoint are upper bounds of the state dispatched.
C37_OriginsBound == BwdAtLabel => OriginsBound

\* What holds instead: the same for the labels other than the entry point.
\* At the entry point the branch ends before the jump origins are looked at.
C37_OriginsBoundPastEntry ==
    (BwdAtLabel /\ ~isEntryPoint(code_, currentIns_)) => OriginsBound

(***************************************************************************)
(* C38                                                                     *)
(***************************************************************************)
\* The state the backward walk is about to dispatch the current instruction
\* on: a clone of the initial state at an exit point, the state the
\* snapshot handling leaves at a jump; nullptr if the branch ends there or
\* the walk aborts.
BwdArrival ==
    LET i == currentIns_
        a == IF isExitPoint(code_, i)
             THEN IF currentState_ # Null
                  THEN [Driver EXCEPT !.pc = "abort"]
                  ELSE [Driver EXCEPT !.currentState_ = New(Clone(s0))]
             ELSE IF isMergePoint(code_, i)
             THEN AtMergePoint(Driver, i, dom)
             ELSE Driver
    IN  IF a.pc = "walk" THEN a.currentState_ ELSE Null

\* The state the backward retrieval returns for location i once the
\* analysis under way has ended.
BwdRetrieved(i) ==
    BwdStateAt(BwdInitializeCache(BwdFixpoint, code_, s0, dom),
               code_, i, s0, dom).d

\* The state the backward retrieval returns for the current location after
\* the fixpoint is an upper bound of the state the walk holds after
\* dispatching the current instruction.
RetrievedBounds ==
    LET X == Dispatch(code_, currentIns_, Deref(BwdArrival), dom)
        r == BwdRetrieved(currentIns_)
    IN  BwdFixpoint.pc # "abort" =>
          /\ r.pc # "abort"
          /\ Bounds(Deref(r.currentState_), X)

\* C38 as stated: whenever the backward walk dispatches an instruction, the
\* state the retrieval returns for its location after the fixpoint is an
\* upper bound of the state the walk holds after the dispatch, also on
\* programs whose last instruction is not an exit point.
C38_RetrievedBounds ==
    (kind = "backward" /\ pc = "walk" /\ BwdArrival # Null) => RetrievedBounds

\* What holds instead: the same on the programs whose last instruction is
\* an exit point.  The cache starts at the last instruction from the
\* initial state and never loads the snapshot a jump there holds.
C38_RetrievedBoundsLastExit ==
    (kind = "backward" /\ pc = "walk" /\ BwdArrival # Null
        /\ isExitPoint(code_, RBegin(code_))) => RetrievedBounds

(***************************************************************************)
(* C39                                                                     *)
(***************************************************************************)
\* C39 as stated: no query makes a retrieval driver leave the instruction
\* sequence.  The backward driver has not stepped to rend() in its last
\* query; the cache of either driver is at a location of the program.
C39_InsideCode ==
    /\ (kind = "backward" /\ pc \in {"ready", "abort"}) => ~restarted
    /\ (kind \in {"forward", "backward"} /\ Fixed) =>
          InCode(code_, currentIns_)

\* What holds instead for the forward driver: its cache stays at a location
\* of the program and no query ends in a failed assertion.
C39_FwdInsideCode ==
    kind = "forward" =>
        /\ pc # "abort"
        /\ Fixed => InCode(code_, currentIns_)

(***************************************************************************)
(* C40                                                                     *)
(***************************************************************************)
\* Merging y into x reports no change and leaves x as it is, for the stacks,
\* the environments and the states as wholes.
StackIdle(x, y) ==
    LET m == StackMergeWith(x, y) IN m.ok /\ ~m.result /\ m.stack = x
EnvIdleMerge(x, y) ==
    LET m == EnvMergeWith(x, y, dom) IN ~m.result /\ m.env = x
StateIdle(x, y) ==
    LET m == StateMergeWith(x, y, dom) IN m.ok /\ ~m.result /\ m.state = x

\* C40: merge is idempotent.  Merging a clone of the receiver into it
\* reports no change and leaves it as it is, for stacks, environments and
\* states; once rhs has been merged into lhs, merging rhs again reports no
\* change and leaves lhs as it is (the keys one side alone binds included);
\* and the walk arriving again with rhs at a merge point whose snapshot is
\* lhs ends its branch.
C40_Idempotent ==
    /\ StackIdle(lhs.stack, Clone(lhs).stack)
    /\ EnvIdleMerge(lhs.env, Clone(lhs).env)
    /\ StateIdle(lhs, Clone(lhs))
    /\ (res.op = "stack" /\ res.ok) => StackIdle(lhs.stack, rhs.stack)
    /\ res.op = "env" => EnvIdleMerge(lhs.env, rhs.env)
    /\ (res.op \in {"state", "label"} /\ res.ok) =>
          /\ StateIdle(lhs, rhs)
          /\ AtMergePoint([Driver EXCEPT !.mergePoints_ = (1 :> New(lhs)),
                                         !.currentState_ = New(rhs),
                                         !.currentIns_ = 1,
                                         !.pc = "walk", !.live = 2],
                          1, dom).pc = "queue"

\* C40 witness: an environment was merged into another, the merge reported
\* a change, a key that only the receiver bound was raised by the merge
\* with absent(), and a key that only the argument bound was added.
C40_Witness ==
    /\ res.op = "env"
    /\ res.result
    /\ \E k \in DOMAIN res.before.env[1] \ DOMAIN rhs.env[1] :
          lhs.env[1][k] # res.before.env[1][k]
    /\ \E k \in DOMAIN rhs.env[1] : k \notin DOMAIN res.before.env[1]

====
